---- MODULE Spec2Model ----
(***************************************************************************)
(* A model of the session-establishment and login-detection engine:        *)
(*   - ManualOAuthExtractor's login-completion monitor                     *)
(*     (services/cookie_extractor.py),                                     *)
(*   - EnhancedCookieInjector (services/enhanced_cookie_injector.py),      *)
(*   - SessionManager.inject_cookies and its login check                   *)
(*     (services/session_manager.py).                                      *)
(*                                                                         *)
(* Time: the monitor runs on an asyncio event loop.  `clock` counts the    *)
(* whole seconds elapsed since asyncio.wait_for armed its timer.  A driver *)
(* call (query_selector_all) either completes within the current second or *)
(* stalls until the timer cancels it; asyncio.sleep(1) completes one       *)
(* second later, and the timer, armed before the first sleep, wins when    *)
(* both fall due at timeout_seconds.                                        *)
(***************************************************************************)
EXTENDS Integers, Sequences, FiniteSets, TLC

VARIABLES
    \* ---- ManualOAuthExtractor and the browser it drives
    timeout_seconds,   \* argument of _wait_for_login_completion
    stop_event,        \* self._stop_event.is_set()
    context,           \* self.context: "none" | "open" | "closed"
    pages,             \* page object -> [st, url, elems]
    mpc,               \* position of the monitor coroutine
    check_count,       \* loop variable of _wait_for_url_change_with_popups
    valid_pages,       \* the pages enumerated by the current tick
    todo,              \* pages of valid_pages the for loop has not reached
    cur,               \* the page whose query_selector_all is awaited
    cur_url,           \* current_url read before that await
    clock,             \* seconds since wait_for armed its timer
    exit_path,         \* how _wait_for_url_change_with_popups ended
    result,            \* return value of _wait_for_login_completion
    outcome,           \* the branch of _wait_for_login_completion taken
    \* ---- observations of the run (history only, never read by the code)
    ticks,             \* iterations that went past the two guards
    evaluated,         \* pages the current tick has evaluated
    first_pos_tick,    \* tick of the first positive login check, 0 if none
    pos_page,          \* the page that check was made on
    stalled,           \* a driver call was cut short by the timer
    env_events,        \* browser events so far
    \* ---- SessionManager.inject_cookies and EnhancedCookieInjector
    cookies,           \* the batch given to SessionManager.inject_cookies
    ipc,               \* position of inject_cookies
    sm_context,        \* self.context of the SessionManager
    todo_urls,         \* navigations the current loop still has to make
    sm_valid_cookies,  \* valid_cookies of inject_cookies (the injector's input)
    valid_cookies,     \* valid_cookies of inject_cookies_with_report
    invalid_cookies,   \* its invalid_cookies (validation results)
    next_cookie,       \* index of the next cookie of the phase 3 loop
    injected_count,
    failed_count,
    injection_results, \* one entry per add_cookies attempt
    injection_report,  \* what inject_cookies_with_report returned
    mismatch_check,    \* the domain check of the report (lines 323-343)
    jar,               \* names of the cookies in the browsing context
    page_view,         \* what self.page shows once validation_url is loaded
    logged_in,         \* result of _check_login_success
    inject_result,     \* what inject_cookies returned
    session_file,      \* content of grok_session.json
    \* ---- observations (history only)
    add_calls,         \* context.add_cookies calls, in call order
    navs,              \* page.goto calls, in call order
    file_writes,       \* writes of grok_session.json
    \* ---- the session store: grok_session.json and the directories of
    \*      config.SESSION_DIR (session_file, above, is the file)
    now,               \* datetime.now(), in days
    spc,               \* the process: "idle" | "saving" | "crashed"
    pending,           \* session_data of the save in progress
    profile_dirs,      \* the directories that exist under SESSION_DIR
    valid_result,      \* what the last has_valid_session() call did
    \* ---- observations of the store (history only)
    previous,          \* the file as it was when the last save began
    last_op,           \* the last operation that returned
    login_at,          \* creation time of the record in force, -1 if none
    logged_out,        \* logout returned and no login succeeded since
    \* ---- EnhancedCookieInjector.validate_cookie applied to one record
    record,            \* the cookie dict given to validate_cookie
    validation,        \* what validate_cookie returned
    revalidation,      \* what validate_cookie returned for the fixed record
    \* ---- the login classifiers applied to one surface
    surface,           \* a page (URL, elements) and the cookie jar
    detection,         \* what the classifier returned
    \* ---- the HTTP handlers (api/routers) and the ExtractionTask registry
    request,           \* the request a handler is working on
    response,          \* what the client received for it
    tasks,             \* ExtractionTask._tasks
    extractions,       \* run_extraction() coroutines that have not ended
    call,              \* the last ExtractionTask call and what it returned
    \* ---- close() of a SessionManager or of an extractor
    handles,           \* the object: its class and its four handles
    close_result       \* how close() ended

monVars == <<timeout_seconds, stop_event, context, pages, mpc, check_count,
             valid_pages, todo, cur, cur_url, clock, exit_path, result,
             outcome, ticks, evaluated, first_pos_tick, pos_page, stalled,
             env_events>>

injVars == <<cookies, ipc, sm_context, todo_urls, sm_valid_cookies,
             valid_cookies, invalid_cookies, next_cookie, injected_count,
             failed_count, injection_results, injection_report,
             mismatch_check, jar, page_view, logged_in, inject_result,
             session_file, add_calls, navs, file_writes>>

storeVars == <<now, spc, pending, profile_dirs, valid_result, previous,
               last_op, login_at, logged_out>>

valVars == <<record, validation, revalidation>>

detVars == <<surface, detection>>

apiVars == <<request, response, tasks, extractions, call>>

closeVars == <<handles, close_result>>

vars == <<monVars, injVars, storeVars, valVars, detVars, apiVars, closeVars>>

----------------------------------------------------------------------------
(* Bounds of the model *)

MaxPages == 2          \* page objects: the main page and the popups
MaxTimeout == 3        \* small timeouts 1..MaxTimeout
MaxEnvEvents == 2      \* browser events during one monitoring run
MaxBatch == 2          \* cookie records in one injection batch
MaxTasks == 2          \* extraction tasks the registry can hold
MaxDays == 32          \* days the clock of the session store runs

(* Program constants *)

max_checks == 600              \* cookie_extractor.py: max_checks
login_check_interval == 1      \* cookie_extractor.py: login_check_interval

Min(a, b) == IF a < b THEN a ELSE b

SetMin(S) == CHOOSE x \in S : \A y \in S : x <= y

----------------------------------------------------------------------------
(* Strings.  A URL, a host or a keyword is the sequence of its parts       *)
(* (labels and separators); `kw in url` of the source is "kw occurs in url  *)
(* as a run of consecutive parts".                                          *)

Contains(str, kw) ==
    \E i \in 1..(Len(str) - Len(kw) + 1) : SubSeq(str, i, i + Len(kw) - 1) = kw

StartsWith(str, prefix) ==
    Len(str) >= Len(prefix) /\ SubSeq(str, 1, Len(prefix)) = prefix

HostGrokCom == <<"grok", ".", "com">>
HostGrokAi == <<"grok", ".", "ai">>
HostXai == <<"x", ".", "ai">>
HostGoogle == <<"accounts", ".", "google", ".", "com">>

Https(host) == <<"https", "://">> \o host

UrlGrokApp == Https(HostGrokCom)
UrlGrokLogin == Https(HostGrokCom) \o <<"/", "login">>
UrlGoogle == Https(HostGoogle) \o <<"/", "signin">>
UrlXai == Https(HostXai)

\* what a window can show: its URL and whether the chat selectors of
\* cookie_extractor.py:547-550 match anything on it
PageViews ==
    {<<UrlGrokApp, TRUE>>, <<UrlGrokApp, FALSE>>, <<UrlGrokLogin, TRUE>>,
     <<UrlGoogle, TRUE>>, <<UrlXai, TRUE>>}

\* cookie_extractor.py:543
OnGrok(url) == Contains(url, HostGrokCom) \/ Contains(url, HostXai)

\* cookie_extractor.py:553-554
LoginKeywords == {<<"login">>, <<"signin">>, <<"auth", "/">>, <<"oauth", "/">>}

is_login_page(url) == \E kw \in LoginKeywords : Contains(url, kw)

----------------------------------------------------------------------------
(* The monitor: _wait_for_login_completion and                              *)
(* _wait_for_url_change_with_popups.                                        *)

PageIds == 1..MaxPages

MainPage == 1

NoPage == 0

Timeouts == (1..MaxTimeout) \cup {max_checks + 1}

OpenPages(pgs) == {p \in PageIds : pgs[p].st = "open"}

\* lines 493-496: the value returned after the inner coroutine came back
ReturnValue(stop, ctx, pgs) ==
    ~(stop \/ ctx = "none" \/ pgs[MainPage].st # "open")

ReturnBranch(stop, ctx, pgs) ==
    IF stop THEN "cancelled"
    ELSE IF ctx = "none" \/ pgs[MainPage].st # "open" THEN "closed"
    ELSE "detected"

\* the inner coroutine returns (or falls off the loop): lines 493-496 run
Finish(path) ==
    /\ mpc' = "done"
    /\ exit_path' = path
    /\ result' = ReturnValue(stop_event, context, pages)
    /\ outcome' = ReturnBranch(stop_event, context, pages)
    /\ valid_pages' = {} /\ todo' = {} /\ cur' = NoPage /\ cur_url' = <<>>

\* Scan as it would be if the loop looked at self.page only
ScanMainOnly(rest, done) ==
    LET grok == {p \in rest : p = MainPage /\ OnGrok(pages[p].url)} IN
    IF grok = {}
    THEN /\ mpc' = "sleep"
         /\ evaluated' = done \cup (rest \cap {MainPage})
         /\ todo' = {} /\ cur' = NoPage /\ cur_url' = <<>>
    ELSE /\ mpc' = "query"
         /\ cur' = MainPage
         /\ cur_url' = pages[MainPage].url
         /\ todo' = {}
         /\ evaluated' = done

\* the for loop over valid_pages, from the pages in `rest` on, up to its next
\* await: a page that is not on grok.com / x.ai is passed without a driver call
Scan(rest, done) ==
    LET grok == {p \in rest : OnGrok(pages[p].url)} IN
    IF grok = {}
    THEN /\ mpc' = "sleep"
         /\ evaluated' = done \cup rest
         /\ todo' = {} /\ cur' = NoPage /\ cur_url' = <<>>
    ELSE LET p == SetMin(grok) IN
         /\ mpc' = "query"
         /\ cur' = p
         /\ cur_url' = pages[p].url
         /\ todo' = {q \in rest : q > p}
         /\ evaluated' = done \cup {q \in rest : q < p}

\* what self.context.pages / p.is_closed() can do on this tick
EnumerationOutcomes ==
    {"listed", "other_error"} \cup
        (IF context = "closed" THEN {"closed_error"} ELSE {})

\* IterTop as it would be without the stop-flag guard of line 513
IterTopNoStop(cc) ==
    IF cc >= max_checks
    THEN Finish("exhausted")
         /\ UNCHANGED <<ticks, evaluated>>
    ELSE IF context = "none"
    THEN Finish("no_context")
         /\ UNCHANGED <<ticks, evaluated>>
    ELSE /\ ticks' = ticks + 1
         /\ valid_pages' = OpenPages(pages)
         /\ Scan(OpenPages(pages), {})
         /\ UNCHANGED <<exit_path, result, outcome>>

\* one iteration of the loop, from its top to the first await (lines 512-532)
IterTop(cc) ==
    IF cc >= max_checks
    THEN Finish("exhausted")
         /\ UNCHANGED <<ticks, evaluated>>
    ELSE IF stop_event
    THEN Finish("stop")
         /\ UNCHANGED <<ticks, evaluated>>
    ELSE IF context = "none"
    THEN Finish("no_context")
         /\ UNCHANGED <<ticks, evaluated>>
    ELSE \E e \in EnumerationOutcomes :
         /\ ticks' = ticks + 1
         /\ CASE e = "listed" ->
                   /\ valid_pages' = OpenPages(pages)
                   /\ Scan(OpenPages(pages), {})
                   /\ UNCHANGED <<exit_path, result, outcome>>
              [] e = "closed_error" ->
                   /\ Finish("context_closed")
                   /\ evaluated' = {}
              [] e = "other_error" ->
                   /\ mpc' = "error_sleep"
                   /\ valid_pages' = {} /\ todo' = {} /\ cur' = NoPage
                   /\ cur_url' = <<>> /\ evaluated' = {}
                   /\ UNCHANGED <<exit_path, result, outcome>>

\* asyncio.wait_for arms the timer and starts the coroutine
MonitorStart ==
    /\ mpc = "start"
    /\ check_count' = 0
    /\ IterTop(0)
    /\ UNCHANGED <<timeout_seconds, stop_event, context, pages, clock,
                   first_pos_tick, pos_page, stalled, env_events, injVars, storeVars, valVars, detVars, apiVars, closeVars>>

\* QueryReturn as it would be if a positive check did not leave the loop
QueryReturnNoExit ==
    /\ mpc = "query"
    /\ \E raised \in BOOLEAN :
         /\ (pages[cur].st # "open") => raised
         /\ LET login_completed ==
                  ~raised /\ pages[cur].elems /\ ~is_login_page(cur_url)
            IN /\ Scan(todo, evaluated \cup {cur})
               /\ first_pos_tick' =
                      IF login_completed /\ first_pos_tick = 0 THEN ticks
                      ELSE first_pos_tick
               /\ pos_page' = IF login_completed THEN cur ELSE pos_page
               /\ UNCHANGED <<exit_path, result, outcome, valid_pages>>
    /\ UNCHANGED <<timeout_seconds, stop_event, context, pages, check_count,
                   clock, ticks, stalled, env_events, injVars, storeVars, valVars, detVars, apiVars, closeVars>>

\* query_selector_all on page `cur` comes back (lines 547-566, 575-576)
QueryReturn ==
    /\ mpc = "query"
    /\ \E raised \in BOOLEAN :
         /\ (pages[cur].st # "open") => raised
         /\ LET login_completed ==
                  ~raised /\ pages[cur].elems /\ ~is_login_page(cur_url)
            IN IF login_completed
               THEN /\ Finish("login_completed")
                    /\ evaluated' = evaluated \cup {cur}
                    /\ first_pos_tick' = ticks
                    /\ pos_page' = cur
               ELSE /\ Scan(todo, evaluated \cup {cur})
                    /\ UNCHANGED <<exit_path, result, outcome, valid_pages,
                                   first_pos_tick, pos_page>>
    /\ UNCHANGED <<timeout_seconds, stop_event, context, pages, check_count,
                   clock, ticks, stalled, env_events, injVars, storeVars, valVars, detVars, apiVars, closeVars>>

\* SleepReturn as it would be if the loop were not run under wait_for
SleepReturnNoDeadline ==
    /\ mpc \in {"sleep", "error_sleep"}
    /\ clock' = clock + login_check_interval
    /\ check_count' = check_count + 1
    /\ IterTop(check_count + 1)
    /\ UNCHANGED <<timeout_seconds, stop_event, context, pages,
                   first_pos_tick, pos_page, stalled, env_events, injVars, storeVars, valVars, detVars, apiVars, closeVars>>

\* asyncio.sleep(login_check_interval) is over (lines 594, 601)
SleepReturn ==
    /\ mpc \in {"sleep", "error_sleep"}
    /\ clock + login_check_interval < timeout_seconds
    /\ clock' = clock + login_check_interval
    /\ check_count' = check_count + 1
    /\ IterTop(check_count + 1)
    /\ UNCHANGED <<timeout_seconds, stop_event, context, pages,
                   first_pos_tick, pos_page, stalled, env_events, injVars, storeVars, valVars, detVars, apiVars, closeVars>>

\* the timer of wait_for fires: the coroutine is cancelled at its await and
\* _wait_for_login_completion takes its TimeoutError branch (lines 486-488)
TimerFires ==
    /\ \/ mpc = "query"
       \/ /\ mpc \in {"sleep", "error_sleep"}
          /\ clock + login_check_interval >= timeout_seconds
    /\ mpc' = "done"
    /\ clock' = timeout_seconds
    /\ stalled' = (stalled \/ mpc = "query")
    /\ exit_path' = "cancelled_by_timer"
    /\ result' = FALSE
    /\ outcome' = "timeout"
    /\ valid_pages' = {} /\ todo' = {} /\ cur' = NoPage /\ cur_url' = <<>>
    /\ UNCHANGED <<timeout_seconds, stop_event, context, pages, check_count,
                   ticks, evaluated, first_pos_tick, pos_page, env_events, injVars, storeVars, valVars, detVars, apiVars, closeVars>>

----------------------------------------------------------------------------
(* The browser and the user, acting while the monitor is suspended.        *)

Suspended == mpc \in {"query", "sleep", "error_sleep"}

EnvFrame ==
    UNCHANGED <<timeout_seconds, mpc, check_count, valid_pages, todo, cur,
                cur_url, clock, exit_path, result, outcome, ticks, evaluated,
                first_pos_tick, pos_page, stalled, injVars, storeVars, valVars, detVars, apiVars, closeVars>>

\* a popup window opens (context.on("page"))
PopupOpens ==
    /\ Suspended /\ context = "open" /\ env_events < MaxEnvEvents
    /\ \E p \in PageIds \ {MainPage}, v \in PageViews :
         /\ pages[p].st = "new"
         /\ \A q \in PageIds : (q > MainPage /\ q < p) => pages[q].st # "new"
         /\ pages' = [pages EXCEPT ![p] = [st |-> "open", url |-> v[1], elems |-> v[2]]]
    /\ env_events' = env_events + 1
    /\ UNCHANGED <<stop_event, context>>
    /\ EnvFrame

\* an open page navigates or re-renders
PageChanges ==
    /\ Suspended /\ context = "open" /\ env_events < MaxEnvEvents
    /\ \E p \in PageIds, v \in PageViews :
         /\ pages[p].st = "open"
         /\ v # <<pages[p].url, pages[p].elems>>
         /\ pages' = [pages EXCEPT ![p].url = v[1], ![p].elems = v[2]]
    /\ env_events' = env_events + 1
    /\ UNCHANGED <<stop_event, context>>
    /\ EnvFrame

\* the user closes one window
PageCloses ==
    /\ Suspended /\ context = "open" /\ env_events < MaxEnvEvents
    /\ \E p \in PageIds :
         /\ pages[p].st = "open"
         /\ pages' = [pages EXCEPT ![p].st = "closed"]
    /\ env_events' = env_events + 1
    /\ UNCHANGED <<stop_event, context>>
    /\ EnvFrame

\* the user closes the browser: the context and all its pages are gone
ContextCloses ==
    /\ Suspended /\ context = "open" /\ env_events < MaxEnvEvents
    /\ context' = "closed"
    /\ pages' = [p \in PageIds |->
                   IF pages[p].st = "open"
                   THEN [pages[p] EXCEPT !.st = "closed"] ELSE pages[p]]
    /\ env_events' = env_events + 1
    /\ UNCHANGED stop_event
    /\ EnvFrame

\* the stop flag is raised from outside the monitor
SetStop ==
    /\ Suspended /\ ~stop_event
    /\ stop_event' = TRUE
    /\ UNCHANGED <<context, pages, env_events>>
    /\ EnvFrame

----------------------------------------------------------------------------
(* Specification of the monitor *)

\* the injection flow is not running
InjectorIdle ==
    /\ cookies = <<>> /\ ipc = "idle" /\ sm_context = "none"
    /\ todo_urls = <<>> /\ sm_valid_cookies = <<>> /\ valid_cookies = <<>>
    /\ invalid_cookies = <<>> /\ next_cookie = 0 /\ injected_count = 0
    /\ failed_count = 0 /\ injection_results = <<>>
    /\ injection_report = [returned |-> FALSE]
    /\ mismatch_check = [checked |-> FALSE]
    /\ jar = {} /\ page_view = [url |-> <<>>]
    /\ logged_in = FALSE /\ inject_result = [returned |-> FALSE]
    /\ session_file = [exists |-> FALSE]
    /\ add_calls = <<>> /\ navs = <<>> /\ file_writes = 0

\* no operation of the session store is running
StoreIdle ==
    /\ now = 0 /\ spc = "idle" /\ pending = [exists |-> FALSE]
    /\ profile_dirs = {} /\ valid_result = [returned |-> FALSE]
    /\ previous = [exists |-> FALSE] /\ last_op = "none"
    /\ login_at = -1 /\ logged_out = FALSE

\* validate_cookie is not being applied
ValidatorIdle ==
    /\ record = <<>> /\ validation = [returned |-> FALSE]
    /\ revalidation = [returned |-> FALSE]

DetectorIdle == surface = [url |-> <<>>] /\ detection = [returned |-> FALSE]

\* the task ids uuid.uuid4() can return
TaskIds == 1..MaxTasks

\* the key is not in ExtractionTask._tasks
NoTask == [absent |-> TRUE]

\* Python's None
None == [none |-> TRUE]

\* no request is being handled and the task registry is empty
ApiIdle ==
    /\ request = [endpoint |-> "none"] /\ response = [sent |-> FALSE]
    /\ tasks = [id \in TaskIds |-> NoTask]
    /\ extractions = [id \in TaskIds |-> [state |-> "none"]]
    /\ call = [op |-> "none"]

\* no object is being closed
CloserIdle == handles = [owner |-> "none"] /\ close_result = [returned |-> FALSE]

NewPage == [st |-> "new", url |-> UrlGrokLogin, elems |-> FALSE]

InitMonitor ==
    /\ timeout_seconds \in Timeouts
    /\ DetectorIdle
    /\ ApiIdle
    /\ CloserIdle
    /\ stop_event \in BOOLEAN
    /\ context \in {"open", "none"}
    /\ \E v \in PageViews :
         pages = [p \in PageIds |->
                    IF p = MainPage /\ context = "open"
                    THEN [st |-> "open", url |-> v[1], elems |-> v[2]]
                    ELSE NewPage]
    /\ mpc = "start"
    /\ check_count = 0
    /\ valid_pages = {} /\ todo = {} /\ cur = NoPage /\ cur_url = <<>>
    /\ clock = 0
    /\ exit_path = "running" /\ result = FALSE /\ outcome = "running"
    /\ ticks = 0 /\ evaluated = {}
    /\ first_pos_tick = 0 /\ pos_page = NoPage
    /\ stalled = FALSE
    \* a run longer than the loop's ceiling is explored with a quiet browser
    /\ env_events = IF timeout_seconds > MaxTimeout THEN MaxEnvEvents ELSE 0
    /\ InjectorIdle
    /\ StoreIdle
    /\ ValidatorIdle

MonitorStep == MonitorStart \/ QueryReturn \/ SleepReturn \/ TimerFires

NextMonitor ==
    \/ MonitorStart
    \/ QueryReturn
    \/ SleepReturn
    \/ TimerFires
    \/ PopupOpens
    \/ PageChanges
    \/ PageCloses
    \/ ContextCloses
    \/ SetStop

SpecMonitor == InitMonitor /\ [][NextMonitor]_vars

\* the event loop runs a ready coroutine and fires a due timer
SpecMonitorFair == SpecMonitor /\ WF_vars(MonitorStep)

----------------------------------------------------------------------------
(* Properties of the monitor *)

MonitorDone == mpc = "done"

MainOpen == pages[MainPage].st = "open"

\* C1: the monitor never blocks indefinitely: whatever the browser does, it
\* returns, and by then it has run at most min(timeout_seconds, 600) ticks
\* and at most timeout_seconds seconds have passed.
C1_MonitorReturns ==
    /\ <>MonitorDone
    /\ [](ticks <= Min(timeout_seconds, max_checks))
    /\ [](clock <= timeout_seconds)

\* C1 witness: a run longer than the ceiling returned after 600 ticks
C1_Witness ==
    /\ MonitorDone
    /\ timeout_seconds > max_checks
    /\ ticks = max_checks

NeverSucceeds ==
    /\ first_pos_tick = 0
    /\ ~stop_event
    /\ context = "open"
    /\ MainOpen
    /\ ~stalled

\* C3: with a login check that never succeeds and timeout_seconds = N, the
\* monitor ends with outcome 'timeout' after exactly N ticks and returns
\* that as a normal (False) result.
C3_TimeoutAfterNTicks ==
    (MonitorDone /\ NeverSucceeds) =>
        /\ outcome = "timeout"
        /\ ticks = timeout_seconds
        /\ result = FALSE

\* C4 as claimed: once the stop flag was raised, the monitor ends with
\* outcome 'cancelled'.
C4_AlwaysCancelled ==
    (MonitorDone /\ stop_event) => outcome = "cancelled"

\* C4: once the stop flag is raised during tick k, tick k+1 is never executed
\* and the monitor returns False: with outcome 'cancelled', or with outcome
\* 'timeout' when the deadline of wait_for comes before the current await
\* ends.
C4_StopEndsMonitor ==
    /\ [][stop_event => ticks' = ticks]_vars
    /\ []((MonitorDone /\ stop_event) =>
            /\ result = FALSE
            /\ outcome \in {"cancelled", "timeout"}
            /\ (outcome = "timeout" => clock = timeout_seconds))

\* C4 witness: the flag was raised during a tick, budget remained, and the
\* loop left through its stop guard
C4_Witness ==
    /\ MonitorDone
    /\ exit_path = "stop"
    /\ outcome = "cancelled"
    /\ ticks >= 1
    /\ ticks < Min(timeout_seconds, max_checks)

\* C5: when the user has closed the browsing context during polling, the
\* monitor ends with the context-closed outcome: the tick that finds the
\* context closed is the last one, and the run ends as 'closed'.
C5_ContextClosedOutcome ==
    [][(context = "closed" /\ ticks' = ticks + 1)
         => (mpc' = "done" /\ outcome' = "closed")]_vars

\* C6: each tick enumerates every page that is open, evaluates each of them
\* before it sleeps, and a positive check on any page, a popup included, ends
\* the loop by detection in that same tick.
C6_EveryOpenPageChecked ==
    /\ [][(ticks' = ticks + 1 /\ mpc' \in {"query", "sleep"})
            => valid_pages' = OpenPages(pages)]_vars
    /\ [](mpc = "sleep" => evaluated = valid_pages)
    /\ [](mpc = "query" => /\ cur \in valid_pages
                          /\ evaluated \cup {cur} \cup todo = valid_pages)
    /\ [][(mpc = "query" /\ mpc' = "done" /\ exit_path' = "login_completed")
            => /\ ticks' = ticks
               /\ pos_page' = cur
               /\ pos_page' \in valid_pages]_vars
    /\ [](first_pos_tick > 0 => exit_path = "login_completed")

\* C6 witness: detection on a popup while the main page stays on the login
\* page, still open
C6_Witness ==
    /\ MonitorDone
    /\ exit_path = "login_completed"
    /\ pos_page # MainPage
    /\ MainOpen
    /\ pages[MainPage].url = UrlGrokLogin
    /\ result

----------------------------------------------------------------------------
(* Cookie records.  A cookie is a Python dict: a function from the keys it  *)
(* has.  name, value, path and sameSite are strings, domain is a string     *)
(* given by its parts, and a value whose type the code inspects (httpOnly,  *)
(* secure, expires) is a one-field record named after its type: [bool |->   *)
(* b], [int |-> n], [num |-> n], [str |-> s].  A key holding None is left   *)
(* out: the code reads both with dict.get.                                  *)
(* Epoch times are counted in units of 10^4 seconds.                        *)

Get(c, f, d) == IF f \in DOMAIN c THEN c[f] ELSE d

IsType(v, t) == t \in DOMAIN v

\* enhanced_cookie_injector.py:98 and session_manager.py:488: 1e10 seconds
MsThreshold == 1000000

\* datetime.now().timestamp(): 1.76e9 seconds
Now == 176000

\* len() of the names and values of the model
StrLen(str) ==
    CASE str = "" -> 0
      [] str = "huge" -> 4097
      [] str = "long_name" -> 1025
      [] OTHER -> 10

\* str.lower() and str.strip() on the parts of a domain
LowerPart(part) ==
    CASE part = "GROK" -> "grok"
      [] part = "COM" -> "com"
      [] OTHER -> part

Lower(str) == [i \in DOMAIN str |-> LowerPart(str[i])]

RECURSIVE LStripPart(_, _)
LStripPart(str, part) ==
    IF str # <<>> /\ Head(str) = part THEN LStripPart(Tail(str), part) ELSE str

RECURSIVE RStripPart(_, _)
RStripPart(str, part) ==
    IF str # <<>> /\ str[Len(str)] = part
    THEN RStripPart(SubSeq(str, 1, Len(str) - 1), part) ELSE str

Strip(str) == RStripPart(LStripPart(str, " "), " ")

CountPart(str, part) == Cardinality({i \in DOMAIN str : str[i] = part})

\* epoch_ts / 1000 (the model's large timestamps are multiples of 1000)
DivideBy1000(n) == n \div 1000

\* enhanced_cookie_injector.py:126-132
SameSiteNormalized(lower) ==
    CASE lower = "lax" -> "Lax"
      [] lower = "strict" -> "Strict"
      [] lower = "none" -> "None"
      [] lower = "no_restriction" -> "None"
      [] lower = "unspecified" -> "Lax"
      [] OTHER -> ""

\* session_manager.py:526-531
SmSameSiteNormalized(lower) ==
    CASE lower = "lax" -> "Lax"
      [] lower = "strict" -> "Strict"
      [] lower = "none" -> "None"
      [] lower = "no_restriction" -> "None"
      [] OTHER -> ""

\* str.lower() of the sameSite values of the model
LowerStr(str) ==
    CASE str = "Lax" -> "lax"
      [] str = "Strict" -> "strict"
      [] str = "None" -> "none"
      [] str = "LAX" -> "lax"
      [] str = "No_Restriction" -> "no_restriction"
      [] OTHER -> str

\* bool(value) of a typed value
Truthy(v) ==
    CASE IsType(v, "bool") -> v.bool
      [] IsType(v, "int") -> v.int # 0
      [] IsType(v, "num") -> v.num # 0
      [] IsType(v, "str") -> v.str # ""

----------------------------------------------------------------------------
(* EnhancedCookieInjector.validate_cookie                                   *)

\* the required-field check without the emptiness test of line 40
RequiredFieldErrorsPresenceOnly(cookie) ==
    {<<"missing", f>> : f \in {f \in {"name", "value"} : f \notin DOMAIN cookie}}

\* lines 37-41: the required-field check
RequiredFieldErrors(cookie) ==
    {<<"missing", f>> : f \in {f \in {"name", "value"} :
                                  f \notin DOMAIN cookie \/ cookie[f] = ""}}

\* lines 51-70: the domain
DomainStr(cookie) == Strip(Lower(cookie.domain))

DomainClean(cookie) == LStripPart(DomainStr(cookie), ".")

\* the test of line 62 without had_leading_dot
DomainNeedsDotMultiLabelOnly(cookie) == CountPart(DomainClean(cookie), ".") >= 1

DomainNeedsDot(cookie) ==
    StartsWith(DomainStr(cookie), <<".">>) \/ CountPart(DomainClean(cookie), ".") >= 1

FixedDomain(cookie) ==
    IF DomainNeedsDot(cookie) THEN <<".">> \o DomainClean(cookie)
    ELSE DomainClean(cookie)

DomainErrors(cookie) ==
    IF Get(cookie, "domain", <<>>) = <<>> THEN {<<"missing", "domain">>} ELSE {}

DomainWarnings(cookie) ==
    IF Get(cookie, "domain", <<>>) # <<>> /\ DomainNeedsDot(cookie)
       /\ ~StartsWith(DomainStr(cookie), <<".">>)
    THEN {<<"domain_dot">>} ELSE {}

\* lines 72-79: the path
FixedPath(cookie) ==
    IF Get(cookie, "path", "/") = "" THEN "/" ELSE Get(cookie, "path", "/")

PathWarnings(cookie) == IF Get(cookie, "path", "/") = "" THEN {<<"path">>} ELSE {}

\* lines 81-89: the boolean fields
FixedFlag(cookie, f) == Truthy(Get(cookie, f, [bool |-> FALSE]))

FlagWarnings(cookie) ==
    {<<"not_bool", f>> : f \in {f \in {"httpOnly", "secure"} :
                                   ~IsType(Get(cookie, f, [bool |-> FALSE]), "bool")}}

\* lines 91-113: expires
HasExpires(cookie) == "expires" \in DOMAIN cookie

ExpiresIsNumber(cookie) ==
    HasExpires(cookie) /\ (IsType(cookie.expires, "num") \/ IsType(cookie.expires, "int"))

RawExpires(cookie) ==
    IF IsType(cookie.expires, "num") THEN cookie.expires.num ELSE cookie.expires.int

\* epoch_ts without the division of line 99
EpochTsNoDivision(cookie) == RawExpires(cookie)

EpochTs(cookie) ==
    IF RawExpires(cookie) > MsThreshold
    THEN DivideBy1000(RawExpires(cookie)) ELSE RawExpires(cookie)

ExpiresErrors(cookie) ==
    IF ~HasExpires(cookie) THEN {}
    ELSE IF ~ExpiresIsNumber(cookie) THEN {<<"bad_type", "expires">>}
    ELSE IF EpochTs(cookie) > 0 /\ EpochTs(cookie) < Now THEN {<<"expired">>}
    ELSE {}

ExpiresWarnings(cookie) ==
    IF ExpiresIsNumber(cookie) /\ RawExpires(cookie) > MsThreshold
    THEN {<<"expires_ms">>} ELSE {}

\* lines 116-140: sameSite
FixedSameSite(cookie) ==
    LET same_site == Get(cookie, "sameSite", "") IN
    IF same_site \in {"Lax", "Strict", "None"} THEN same_site
    ELSE SameSiteNormalized(LowerStr(same_site))

SameSiteWarnings(cookie) ==
    LET same_site == Get(cookie, "sameSite", "") IN
    IF same_site = "" \/ same_site \in {"Lax", "Strict", "None"} THEN {}
    ELSE IF SameSiteNormalized(LowerStr(same_site)) # "" THEN {<<"samesite_normalized">>}
    ELSE {<<"samesite_removed">>}

\* lines 142-145: the size check
CookieSize(cookie) ==
    IF RequiredFieldErrors(cookie) = {} THEN StrLen(cookie.name) + StrLen(cookie.value)
    ELSE 0

SizeWarnings(cookie) == IF CookieSize(cookie) > 4096 THEN {<<"size">>} ELSE {}

ValidationErrors(cookie) ==
    RequiredFieldErrors(cookie) \cup DomainErrors(cookie) \cup ExpiresErrors(cookie)

ValidationWarnings(cookie) ==
    DomainWarnings(cookie) \cup PathWarnings(cookie) \cup FlagWarnings(cookie)
        \cup ExpiresWarnings(cookie) \cup SameSiteWarnings(cookie)
        \cup SizeWarnings(cookie)

\* fixed_cookie, for a cookie without errors
FixedCookie(cookie) ==
    [name |-> cookie.name, value |-> cookie.value,
     domain |-> FixedDomain(cookie), path |-> FixedPath(cookie),
     httpOnly |-> [bool |-> FixedFlag(cookie, "httpOnly")],
     secure |-> [bool |-> FixedFlag(cookie, "secure")]]
    @@ (IF HasExpires(cookie) THEN [expires |-> [num |-> EpochTs(cookie)]]
        ELSE <<>>)
    @@ (IF FixedSameSite(cookie) # "" THEN [sameSite |-> FixedSameSite(cookie)]
        ELSE <<>>)

\* the validation result as it would be if a warning made a record invalid
validate_cookie_strict(cookie, index) ==
    LET errors == ValidationErrors(cookie) IN
    [index |-> index,
     original |-> cookie,
     valid |-> errors = {} /\ ValidationWarnings(cookie) = {},
     fixed |-> IF errors = {} THEN FixedCookie(cookie) ELSE <<>>,
     errors |-> errors,
     warnings |-> ValidationWarnings(cookie),
     cookie_size |-> CookieSize(cookie)]

\* lines 147-156: the validation result
validate_cookie(cookie, index) ==
    LET errors == ValidationErrors(cookie) IN
    [index |-> index,
     original |-> cookie,
     valid |-> errors = {},
     fixed |-> IF errors = {} THEN FixedCookie(cookie) ELSE <<>>,
     errors |-> errors,
     warnings |-> ValidationWarnings(cookie),
     cookie_size |-> CookieSize(cookie)]

----------------------------------------------------------------------------
(* SessionManager.inject_cookies: the code around the injector              *)

\* config.py: GROK_URL and X_AI_URL
GROK_URL == Https(HostGrokAi)

X_AI_URL == Https(HostXai)

\* lines 456-460
cookie_domains(batch) ==
    {LStripPart(batch[i].domain, ".") :
        i \in {j \in DOMAIN batch : Get(batch[j], "domain", <<>>) # <<>>}}

AnyDomain(batch, host) == \E d \in cookie_domains(batch) : Contains(d, host)

\* lines 462-471
bootstrap_urls(batch) ==
    LET found == (IF AnyDomain(batch, HostGrokCom) THEN <<Https(HostGrokCom)>> ELSE <<>>)
                 \o (IF AnyDomain(batch, HostXai) THEN <<X_AI_URL>> ELSE <<>>)
                 \o (IF AnyDomain(batch, HostGrokAi) THEN <<Https(HostGrokAi)>> ELSE <<>>)
    IN  IF found = <<>> THEN <<GROK_URL>> ELSE found

\* lines 485-491; 0 stands for None (the code tests `expires and ...`)
SmExpires(cookie) ==
    IF ExpiresIsNumber(cookie)
    THEN IF RawExpires(cookie) > MsThreshold
         THEN DivideBy1000(RawExpires(cookie)) ELSE RawExpires(cookie)
    ELSE 0

\* line 499
domain_raw(cookie) == Strip(Get(cookie, "domain", <<>>))

\* lines 494-496 and 500-502: the records the loop skips
SmSkips(cookie) ==
    \/ SmExpires(cookie) > 0 /\ SmExpires(cookie) < Now
    \/ domain_raw(cookie) = <<>>

\* lines 510-511: cookie["name"], cookie["value"] raise KeyError
SmRaises(cookie) == "name" \notin DOMAIN cookie \/ "value" \notin DOMAIN cookie

\* lines 504-533
cookie_data(cookie) ==
    [name |-> cookie.name, value |-> cookie.value,
     domain |-> IF StartsWith(domain_raw(cookie), <<".">>)
                THEN <<".">> \o LStripPart(domain_raw(cookie), ".")
                ELSE LStripPart(domain_raw(cookie), "."),
     path |-> Get(cookie, "path", "/"),
     httpOnly |-> Get(cookie, "httpOnly", [bool |-> FALSE]),
     secure |-> Get(cookie, "secure", [bool |-> FALSE])]
    @@ (IF SmExpires(cookie) > 0 THEN [expires |-> [num |-> SmExpires(cookie)]]
        ELSE <<>>)
    @@ (IF SmSameSiteNormalized(LowerStr(Get(cookie, "sameSite", ""))) # ""
        THEN [sameSite |-> SmSameSiteNormalized(LowerStr(cookie.sameSite))]
        ELSE <<>>)

\* lines 483-535: the loop over the batch
RECURSIVE SmFilter(_, _)
SmFilter(rest, acc) ==
    IF rest = <<>> THEN [raised |-> FALSE, out |-> acc]
    ELSE IF SmSkips(Head(rest)) THEN SmFilter(Tail(rest), acc)
    ELSE IF SmRaises(Head(rest)) THEN [raised |-> TRUE, out |-> acc]
    ELSE SmFilter(Tail(rest), Append(acc, cookie_data(Head(rest))))

\* lines 564-569
validation_url(batch) ==
    IF AnyDomain(batch, HostGrokCom) THEN GROK_URL
    ELSE IF AnyDomain(batch, HostGrokAi) THEN Https(HostGrokAi)
    ELSE IF AnyDomain(batch, HostXai) THEN X_AI_URL
    ELSE GROK_URL

----------------------------------------------------------------------------
(* SessionManager._check_login_success, as a function of what the page      *)
(* shows and of the cookies of the context                                  *)

SmLoginKeywords == LoginKeywords \cup {<<"sign", "-", "in">>}

AppKeywords ==
    {<<"chat">>, <<"conversation">>, <<"app">>, <<"dashboard">>, <<"home">>,
     HostGrokCom}

\* line 238: the names of the model that contain one of the keywords
\* session, auth, token, sid, _ga, ct0, kdt
IsSessionName(name) == name \in {"session_id", "auth_token", "_ga"}

\* the detector without the test of the URL at line 150
_check_login_success_ignoring_url(view, context_cookies) ==
    IF /\ \/ Contains(view.url, HostGrokCom)
          \/ Contains(view.url, <<"grok", ".", "x", ".", "ai">>)
       /\ view.indicator THEN TRUE
    ELSE IF view.login_button THEN FALSE
    ELSE IF /\ \E kw \in AppKeywords : Contains(view.url, kw)
            /\ Cardinality(context_cookies) > 0 THEN TRUE
    ELSE IF \E c \in context_cookies : IsSessionName(c.name) THEN TRUE
    ELSE IF Cardinality(context_cookies) >= 3 /\ Contains(view.url, HostGrokCom)
         THEN TRUE
    ELSE FALSE

_check_login_success(view, context_cookies) ==
    IF \E kw \in SmLoginKeywords : Contains(view.url, kw) THEN FALSE
    ELSE IF /\ \/ Contains(view.url, HostGrokCom)
               \/ Contains(view.url, <<"grok", ".", "x", ".", "ai">>)
            /\ view.indicator THEN TRUE
    ELSE IF view.login_button THEN FALSE
    ELSE IF /\ \E kw \in AppKeywords : Contains(view.url, kw)
            /\ Cardinality(context_cookies) > 0 THEN TRUE
    ELSE IF \E c \in context_cookies : IsSessionName(c.name) THEN TRUE
    ELSE IF Cardinality(context_cookies) >= 3 /\ Contains(view.url, HostGrokCom)
         THEN TRUE
    ELSE FALSE

----------------------------------------------------------------------------
(* EnhancedCookieInjector.inject_cookies_with_report: phases 1 and 2        *)

\* lines 206-208
validation_results(batch) ==
    [i \in DOMAIN batch |-> validate_cookie(batch[i], i - 1)]

IsValidResult(r) == r.valid

FixedOf(results) == [i \in DOMAIN results |-> results[i].fixed]

\* lines 251-262
visit_url(cookie) ==
    LET visit_domain == IF StartsWith(cookie.domain, <<".">>)
                        THEN Tail(cookie.domain) ELSE cookie.domain
    IN  IF Contains(visit_domain, <<"localhost">>)
           \/ StartsWith(visit_domain, <<"127", ".", "0", ".">>)
        THEN <<"http", "://">> \o visit_domain
        ELSE <<"https", "://">> \o visit_domain

\* the order of str on the parts of the model's URLs
PartRank(part) ==
    CASE part = "." -> 1
      [] part = "://" -> 2
      [] part = "ai" -> 3
      [] part = "com" -> 4
      [] part = "grok" -> 5
      [] part = "http" -> 6
      [] part = "https" -> 7
      [] part = "localhost" -> 8
      [] part = "x" -> 9

RECURSIVE StrLess(_, _)
StrLess(a, b) ==
    IF b = <<>> THEN FALSE
    ELSE IF a = <<>> THEN TRUE
    ELSE IF Head(a) = Head(b) THEN StrLess(Tail(a), Tail(b))
    ELSE PartRank(Head(a)) < PartRank(Head(b))

\* sorted(domains), line 265
RECURSIVE Sorted(_)
Sorted(S) ==
    IF S = {} THEN <<>>
    ELSE LET first == CHOOSE x \in S : \A y \in S \ {x} : StrLess(x, y)
         IN  <<first>> \o Sorted(S \ {first})

\* lines 246-262
prime_urls(valid) == Sorted({visit_url(valid[i]) : i \in DOMAIN valid})

\* an early report that drops the validation failures
EarlyReportNoFailures(batch, invalid) ==
    [returned |-> TRUE, success |-> FALSE,
     cookies_processed |-> Len(batch), cookies_valid |-> 0,
     cookies_injected |-> 0, cookies_failed |-> 0,
     validation_failures |-> <<>>, injection_failures |-> <<>>]

\* lines 234-242
EarlyReport(batch, invalid) ==
    [returned |-> TRUE, success |-> FALSE,
     cookies_processed |-> Len(batch), cookies_valid |-> 0,
     cookies_injected |-> 0, cookies_failed |-> Len(invalid),
     validation_failures |-> invalid, injection_failures |-> <<>>]

IsFailure(r) == ~r.success

\* urlparse(url).netloc of a URL of the model: what stands between the
\* scheme and the first "/"
Netloc(url) ==
    LET rest == SubSeq(url, 3, Len(url))
        slashes == {i \in DOMAIN rest : rest[i] = "/"}
    IN  IF slashes = {} THEN rest
        ELSE SubSeq(rest, 1, (CHOOSE i \in slashes :
                                 \A k \in slashes : i <= k) - 1)

\* lines 330-336
report_cookie_domains(valid) ==
    {IF StartsWith(valid[j].domain, <<".">>) THEN Tail(valid[j].domain)
     ELSE valid[j].domain : j \in DOMAIN valid}

\* lines 323-343: the check of the page the injector was given, made when
\* the report is built
DomainCheck(current_url, valid) ==
    [checked |-> TRUE, url |-> current_url,
     mismatch |-> Netloc(current_url) \notin report_cookie_domains(valid)]

\* initial_page.url when the report is built: the page is where the last
\* navigation left it, which is the origin asked for, a host under it that
\* the site redirects to, or (the navigation having failed) the origin of
\* the navigation before
PagesAfter(history) ==
    LET last == history[Len(history)].url IN
    {last, <<last[1], last[2], "www", ".">> \o SubSeq(last, 3, Len(last))}
    \cup (IF Len(history) > 1 THEN {history[Len(history) - 1].url} ELSE {})

\* lines 300 and 348-357
FinalReport(batch, valid, invalid, injected, failed, results) ==
    [returned |-> TRUE, success |-> injected > 0 /\ failed = 0,
     cookies_processed |-> Len(batch), cookies_valid |-> Len(valid),
     cookies_injected |-> injected, cookies_failed |-> failed + Len(invalid),
     validation_failures |-> invalid,
     injection_failures |-> SelectSeq(results, IsFailure)]

----------------------------------------------------------------------------
(* The injection flow: SessionManager.inject_cookies calling                *)
(* EnhancedCookieInjector.inject_cookies_with_report.  One action per await *)
(* of the driver, plus the two synchronous passes over the batch; a driver  *)
(* call either returns or raises.                                           *)

injLoop == <<valid_cookies, invalid_cookies, next_cookie, injected_count,
             failed_count, injection_results, injection_report,
             mismatch_check>>

injEnd == <<logged_in, inject_result, session_file, file_writes>>

\* lines 434-471: initialize(), the page, the bootstrap URLs
Initialize ==
    /\ ipc = "start"
    /\ \E ok \in BOOLEAN :
         IF ok
         THEN /\ sm_context' = "open"
              /\ todo_urls' = bootstrap_urls(cookies)
              /\ ipc' = "bootstrap"
         ELSE /\ ipc' = "closing"
              /\ UNCHANGED <<sm_context, todo_urls>>
    /\ UNCHANGED <<cookies, sm_valid_cookies, injLoop, injEnd, jar, page_view,
                   add_calls, navs>>
    /\ UNCHANGED <<monVars, storeVars, valVars, detVars, apiVars, closeVars>>

\* lines 474-477: one bootstrap navigation
BootstrapGoto ==
    /\ ipc = "bootstrap"
    /\ \E ok \in BOOLEAN :
         /\ navs' = Append(navs, [by |-> "session_manager",
                                  url |-> Head(todo_urls)])
         /\ IF ok
            THEN /\ todo_urls' = Tail(todo_urls)
                 /\ ipc' = IF Tail(todo_urls) = <<>> THEN "filter" ELSE "bootstrap"
            ELSE /\ ipc' = "closing"
                 /\ UNCHANGED todo_urls
    /\ UNCHANGED <<cookies, sm_context, sm_valid_cookies, injLoop, injEnd, jar,
                   page_view, add_calls>>
    /\ UNCHANGED <<monVars, storeVars, valVars, detVars, apiVars, closeVars>>

\* lines 479-537: the pass that prepares the injector's input
FilterCookies ==
    /\ ipc = "filter"
    /\ LET filtered == SmFilter(cookies, <<>>)
       IN  IF filtered.raised
           THEN /\ ipc' = "closing"
                /\ UNCHANGED sm_valid_cookies
           ELSE /\ sm_valid_cookies' = filtered.out
                /\ ipc' = "validate"
    /\ UNCHANGED <<cookies, sm_context, todo_urls, injLoop, injEnd, jar,
                   page_view, add_calls, navs>>
    /\ UNCHANGED <<monVars, storeVars, valVars, detVars, apiVars, closeVars>>

\* inject_cookies_with_report, lines 198-262: phase 1, the early return,
\* the domains of phase 2
ValidateAll ==
    /\ ipc = "validate"
    /\ LET results == validation_results(sm_valid_cookies)
           valid == FixedOf(SelectSeq(results, IsValidResult))
           invalid == SelectSeq(results, LAMBDA r : ~r.valid)
       IN  /\ valid_cookies' = valid
           /\ invalid_cookies' = invalid
           /\ IF valid = <<>>
              THEN /\ injection_report' = EarlyReport(sm_valid_cookies, invalid)
                   /\ ipc' = "apply"
                   /\ UNCHANGED todo_urls
              ELSE /\ todo_urls' = prime_urls(valid)
                   /\ ipc' = "prime"
                   /\ UNCHANGED injection_report
    /\ next_cookie' = 1 /\ injected_count' = 0 /\ failed_count' = 0
    /\ injection_results' = <<>>
    /\ UNCHANGED mismatch_check
    /\ UNCHANGED <<cookies, sm_context, sm_valid_cookies, injEnd, jar,
                   page_view, add_calls, navs>>
    /\ UNCHANGED <<monVars, storeVars, valVars, detVars, apiVars, closeVars>>

\* a phase 2 that makes its first visit only and leaves the others
PrimeVisitFirstOnly ==
    /\ ipc = "prime"
    /\ navs' = Append(navs, [by |-> "injector", url |-> Head(todo_urls)])
    /\ todo_urls' = Tail(todo_urls)
    /\ ipc' = "inject"
    /\ UNCHANGED <<cookies, sm_context, sm_valid_cookies, injLoop, injEnd, jar,
                   page_view, add_calls>>
    /\ UNCHANGED <<monVars, storeVars, valVars, detVars, apiVars, closeVars>>

\* lines 265-271: one visit of phase 2; whether it returns or raises, the
\* loop goes on (the exception is logged and dropped)
PrimeVisit ==
    /\ ipc = "prime"
    /\ navs' = Append(navs, [by |-> "injector", url |-> Head(todo_urls)])
    /\ todo_urls' = Tail(todo_urls)
    /\ ipc' = IF Tail(todo_urls) = <<>> THEN "inject" ELSE "prime"
    /\ UNCHANGED <<cookies, sm_context, sm_valid_cookies, injLoop, injEnd, jar,
                   page_view, add_calls>>
    /\ UNCHANGED <<monVars, storeVars, valVars, detVars, apiVars, closeVars>>

\* what add_cookies stores for a cookie: the key of the cookie in the jar
JarEntry(cookie) ==
    [name |-> cookie.name, domain |-> cookie.domain, path |-> cookie.path]

\* a phase 3 whose loop stops at the first failure
InjectSingleAbortOnFailure ==
    /\ ipc = "inject"
    /\ next_cookie <= Len(valid_cookies)
    /\ \E ok \in BOOLEAN :
         LET cookie == valid_cookies[next_cookie]
             results == Append(injection_results,
                               [cookie |-> cookie, success |-> ok])
             injected == injected_count + (IF ok THEN 1 ELSE 0)
             failed == failed_count + (IF ok THEN 0 ELSE 1)
         IN  /\ add_calls' = Append(add_calls, [cookies |-> <<cookie>>, ok |-> ok])
             /\ jar' = IF ok THEN jar \cup {JarEntry(cookie)} ELSE jar
             /\ injection_results' = results
             /\ injected_count' = injected
             /\ failed_count' = failed
             /\ next_cookie' = next_cookie + 1
             /\ IF next_cookie = Len(valid_cookies) \/ ~ok
                THEN /\ injection_report' =
                          FinalReport(sm_valid_cookies, valid_cookies,
                                      invalid_cookies, injected, failed, results)
                     /\ \E current_url \in PagesAfter(navs) :
                           mismatch_check' = DomainCheck(current_url, valid_cookies)
                     /\ ipc' = "apply"
                ELSE /\ ipc' = "inject"
                     /\ UNCHANGED <<injection_report, mismatch_check>>
    /\ UNCHANGED <<cookies, sm_context, todo_urls, sm_valid_cookies,
                   valid_cookies, invalid_cookies, injEnd, page_view, navs>>
    /\ UNCHANGED <<monVars, storeVars, valVars, detVars, apiVars, closeVars>>

\* lines 158-184 and 278-297: one iteration of phase 3; after the last one
\* lines 299-357 build the report
InjectSingle ==
    /\ ipc = "inject"
    /\ next_cookie <= Len(valid_cookies)
    /\ \E ok \in BOOLEAN :
         LET cookie == valid_cookies[next_cookie]
             results == Append(injection_results,
                               [cookie |-> cookie, success |-> ok])
             injected == injected_count + (IF ok THEN 1 ELSE 0)
             failed == failed_count + (IF ok THEN 0 ELSE 1)
         IN  /\ add_calls' = Append(add_calls, [cookies |-> <<cookie>>, ok |-> ok])
             /\ jar' = IF ok THEN jar \cup {JarEntry(cookie)} ELSE jar
             /\ injection_results' = results
             /\ injected_count' = injected
             /\ failed_count' = failed
             /\ next_cookie' = next_cookie + 1
             /\ IF next_cookie = Len(valid_cookies)
                THEN /\ injection_report' =
                          FinalReport(sm_valid_cookies, valid_cookies,
                                      invalid_cookies, injected, failed, results)
                     /\ \E current_url \in PagesAfter(navs) :
                           mismatch_check' = DomainCheck(current_url, valid_cookies)
                     /\ ipc' = "apply"
                ELSE /\ ipc' = "inject"
                     /\ UNCHANGED <<injection_report, mismatch_check>>
    /\ UNCHANGED <<cookies, sm_context, todo_urls, sm_valid_cookies,
                   valid_cookies, invalid_cookies, injEnd, page_view, navs>>
    /\ UNCHANGED <<monVars, storeVars, valVars, detVars, apiVars, closeVars>>

\* cookies a visited site may set by itself
SiteCookies == {[name |-> "_ga", domain |-> <<".">> \o HostGrokCom, path |-> "/"]}

\* where page.goto(url) can end, and what the page then shows
LandingViews(url) ==
    {[url |-> u, indicator |-> i, login_button |-> b] :
        u \in {url, UrlGrokApp, UrlGrokLogin}, i \in BOOLEAN, b \in BOOLEAN}

\* lines 563-586: the navigation that applies the cookies
ApplyGoto ==
    /\ ipc = "apply"
    /\ \E ok \in BOOLEAN :
         /\ navs' = Append(navs, [by |-> "session_manager",
                                  url |-> validation_url(cookies)])
         /\ IF ok
            THEN /\ \E v \in LandingViews(validation_url(cookies)) :
                        page_view' = v
                 /\ \E site \in SUBSET SiteCookies : jar' = jar \cup site
                 /\ ipc' = "check"
            ELSE /\ ipc' = "closing"
                 /\ UNCHANGED <<page_view, jar>>
    /\ UNCHANGED <<cookies, sm_context, todo_urls, sm_valid_cookies, injLoop,
                   injEnd, add_calls>>
    /\ UNCHANGED <<monVars, storeVars, valVars, detVars, apiVars, closeVars>>

\* timedelta(days=30), lines 123, 393 and 599
SessionDays == 30

\* datetime.isoformat(): the string of a time, here the time it spells
isoformat(t) == [iso |-> t]

\* an expiry seven days after the creation
ExpiryInAWeek(t) == isoformat(t + 7)

\* (datetime.now() + timedelta(days=30)).isoformat()
Expiry(t) == isoformat(t + SessionDays)

\* the record of lines 596-604
SessionData(cookie_count) ==
    [exists |-> TRUE, logged_in |-> TRUE,
     timestamp |-> isoformat(now), expiry |-> Expiry(now),
     login_method |-> "cookie_injection", cookie_count |-> cookie_count]

ReturnTuple(success, cookie_count) ==
    [returned |-> TRUE, raised |-> FALSE, success |-> success,
     cookie_count |-> cookie_count]

\* a decision that ignores the number of injected cookies
CheckLoginIgnoresCount ==
    /\ ipc = "check"
    /\ LET cookie_count == injection_report.cookies_injected
           ok == _check_login_success(page_view, jar)
       IN  /\ logged_in' = ok
           /\ IF ok
              THEN /\ session_file' = SessionData(cookie_count)
                   /\ file_writes' = file_writes + 1
                   /\ inject_result' = ReturnTuple(TRUE, cookie_count)
              ELSE /\ inject_result' = ReturnTuple(FALSE, cookie_count)
                   /\ UNCHANGED <<session_file, file_writes>>
    /\ ipc' = "done"
    /\ UNCHANGED <<cookies, sm_context, todo_urls, sm_valid_cookies, injLoop,
                   jar, page_view, add_calls, navs>>
    /\ UNCHANGED <<monVars, storeVars, valVars, detVars, apiVars, closeVars>>

\* lines 588-615: the login check and the decision
CheckLogin ==
    /\ ipc = "check"
    /\ LET cookie_count == injection_report.cookies_injected
           ok == _check_login_success(page_view, jar)
       IN  /\ logged_in' = ok
           /\ IF ok /\ cookie_count > 0
              THEN /\ session_file' = SessionData(cookie_count)
                   /\ file_writes' = file_writes + 1
                   /\ inject_result' = ReturnTuple(TRUE, cookie_count)
              ELSE /\ inject_result' = ReturnTuple(FALSE, cookie_count)
                   /\ UNCHANGED <<session_file, file_writes>>
    /\ ipc' = "done"
    /\ UNCHANGED <<cookies, sm_context, todo_urls, sm_valid_cookies, injLoop,
                   jar, page_view, add_calls, navs>>
    /\ UNCHANGED <<monVars, storeVars, valVars, detVars, apiVars, closeVars>>

\* lines 617-620 and close(), lines 52-68: close() has no handler of its own
Close ==
    /\ ipc = "closing"
    /\ \E ok \in BOOLEAN :
         IF ok
         THEN /\ sm_context' = "none"
              /\ inject_result' = ReturnTuple(FALSE, 0)
         ELSE /\ inject_result' = [returned |-> FALSE, raised |-> TRUE,
                                   success |-> FALSE, cookie_count |-> 0]
              /\ UNCHANGED sm_context
    /\ ipc' = "done"
    /\ UNCHANGED <<cookies, todo_urls, sm_valid_cookies, injLoop, logged_in,
                   session_file, file_writes, jar, page_view, add_calls, navs>>
    /\ UNCHANGED <<monVars, storeVars, valVars, detVars, apiVars, closeVars>>

----------------------------------------------------------------------------
(* Specification of the injection flow *)

DotGrokCom == <<".">> \o HostGrokCom

\* the records a batch is made of
CookieSession ==
    [name |-> "session_id", value |-> "abc", domain |-> DotGrokCom,
     expires |-> [num |-> Now + 60]]    \* in seven days

CookieAuth == [name |-> "auth_token", value |-> "abc", domain |-> DotGrokCom]

CookieExpired ==
    [name |-> "old", value |-> "abc", domain |-> DotGrokCom,
     expires |-> [int |-> Now - 1]]

CookieNoDomain == [name |-> "pref", value |-> "abc"]

CookieEmptyValue == [name |-> "empty", value |-> "", domain |-> DotGrokCom]

CookieNoName == [value |-> "abc", domain |-> DotGrokCom]

\* expiry in milliseconds, bare domain, flags and sameSite in export formats
CookieMs ==
    [name |-> "ms", value |-> "abc", domain |-> <<"GROK", ".", "COM">>,
     expires |-> [int |-> (Now + 60) * 1000],
     httpOnly |-> [int |-> 1], sameSite |-> "no_restriction"]

CookieXai ==
    [name |-> "theme", value |-> "huge", domain |-> <<".">> \o HostXai,
     path |-> "", sameSite |-> "unspecified"]

CookieLocal ==
    [name |-> "dev", value |-> "abc", domain |-> <<"localhost">>,
     expires |-> [str |-> "never"]]

CookiePool ==
    {CookieSession, CookieAuth, CookieExpired, CookieNoDomain,
     CookieEmptyValue, CookieNoName, CookieMs, CookieXai, CookieLocal}

Batches == UNION {[1..n -> CookiePool] : n \in 0..MaxBatch}

\* a record left by an earlier oauth_login (lines 391-401)
OldSession ==
    [exists |-> TRUE, logged_in |-> TRUE,
     timestamp |-> isoformat(0), expiry |-> Expiry(0), login_method |-> "oauth"]

\* the monitor is not running
MonitorIdle ==
    /\ timeout_seconds = 1 /\ stop_event = FALSE /\ context = "none"
    /\ pages = [p \in PageIds |-> NewPage]
    /\ mpc = "idle" /\ check_count = 0
    /\ valid_pages = {} /\ todo = {} /\ cur = NoPage /\ cur_url = <<>>
    /\ clock = 0
    /\ exit_path = "running" /\ result = FALSE /\ outcome = "running"
    /\ ticks = 0 /\ evaluated = {}
    /\ first_pos_tick = 0 /\ pos_page = NoPage
    /\ stalled = FALSE /\ env_events = 0

InitInject ==
    /\ MonitorIdle
    /\ DetectorIdle
    /\ ApiIdle
    /\ CloserIdle
    /\ StoreIdle
    /\ ValidatorIdle
    /\ cookies \in Batches
    /\ ipc = "start" /\ sm_context = "none"
    /\ todo_urls = <<>> /\ sm_valid_cookies = <<>> /\ valid_cookies = <<>>
    /\ invalid_cookies = <<>> /\ next_cookie = 0 /\ injected_count = 0
    /\ failed_count = 0 /\ injection_results = <<>>
    /\ injection_report = [returned |-> FALSE]
    /\ mismatch_check = [checked |-> FALSE]
    /\ jar = {} /\ page_view = [url |-> <<>>]
    /\ logged_in = FALSE /\ inject_result = [returned |-> FALSE]
    /\ session_file \in {[exists |-> FALSE], OldSession}
    /\ add_calls = <<>> /\ navs = <<>> /\ file_writes = 0

NextInject ==
    \/ Initialize
    \/ BootstrapGoto
    \/ FilterCookies
    \/ ValidateAll
    \/ PrimeVisit
    \/ InjectSingle
    \/ ApplyGoto
    \/ CheckLogin
    \/ Close

SpecInject == InitInject /\ [][NextInject]_vars

----------------------------------------------------------------------------
(* Properties of the injection flow *)

\* the records of the injector's input that pass validation, as fixed by
\* validate_cookie, in input order
ValidatedRecords ==
    FixedOf(SelectSeq(validation_results(sm_valid_cookies), IsValidResult))

\* C7: during injection every validated record is passed to
\* context.add_cookies exactly once, alone and in input order; a failed
\* add_cookies is recorded as the failure of that record and the records
\* after it are still attempted: when the report is returned there has been
\* one call per validated record.
C7_EachValidatedRecordInjectedOnce ==
    LET validated == ValidatedRecords
    IN  /\ Len(add_calls) <= Len(validated)
        /\ Len(injection_results) = Len(add_calls)
        /\ \A i \in DOMAIN add_calls :
             /\ add_calls[i].cookies = <<validated[i]>>
             /\ injection_results[i].cookie = validated[i]
             /\ injection_results[i].success = add_calls[i].ok
        /\ injection_report.returned =>
             /\ Len(add_calls) = Len(validated)
             /\ injection_report.injection_failures =
                    SelectSeq(injection_results, IsFailure)
             /\ Len(injection_report.injection_failures) =
                    Cardinality({i \in DOMAIN add_calls : ~add_calls[i].ok})

\* the first of two validated records was rejected by the browser and the
\* second one was injected all the same
C7_Witness ==
    /\ injection_report.returned
    /\ Len(add_calls) = 2
    /\ ~add_calls[1].ok
    /\ add_calls[2].ok
    /\ add_calls[1].cookies # add_calls[2].cookies

\* the records of the batch that pass validate_cookie
ValidInBatch ==
    {i \in DOMAIN cookies : validate_cookie(cookies[i], i - 1).valid}

\* C8: for the batch of N records given to inject_cookies, V of which pass
\* validation, the injection report has processed = N, valid = V,
\* injected <= V and failed = N - injected.
C8_ReportCounts ==
    injection_report.returned =>
        /\ injection_report.cookies_processed = Len(cookies)
        /\ injection_report.cookies_valid = Cardinality(ValidInBatch)
        /\ injection_report.cookies_injected <= Cardinality(ValidInBatch)
        /\ injection_report.cookies_failed =
               Len(cookies) - injection_report.cookies_injected

\* the step by which inject_cookies_with_report finds no valid record
FindsNoValidRecord == ipc = "validate" /\ ipc' # "validate" /\ valid_cookies' = <<>>

InjectorNavs == SelectSeq(navs, LAMBDA n : n.by = "injector")

\* C9: when no record of its input passes validation,
\* inject_cookies_with_report returns in that very step, without an
\* exception, a report with injected = 0 and the validation failure of every
\* record; it makes no priming navigation and no add_cookies call, then or
\* later.
C9_NoValidRecordReturnsAtOnce ==
    /\ [][FindsNoValidRecord =>
            /\ injection_report'.returned
            /\ ~injection_report'.success
            /\ injection_report'.cookies_injected = 0
            /\ injection_report'.validation_failures =
                   validation_results(sm_valid_cookies)
            /\ navs' = navs
            /\ add_calls' = add_calls]_vars
    /\ []((injection_report.returned /\ injection_report.cookies_valid = 0) =>
            (add_calls = <<>> /\ InjectorNavs = <<>> /\ jar \subseteq SiteCookies))

\* two records, both refused by the validation, and the report returned
C9_Witness ==
    /\ injection_report.returned
    /\ injection_report.cookies_valid = 0
    /\ Len(injection_report.validation_failures) = 2
    /\ injection_report.cookies_failed = 2
    /\ add_calls = <<>>

----------------------------------------------------------------------------
(* The session store: grok_session.json, written by the login paths, read   *)
(* by has_valid_session, removed by logout.  The file is absent             *)
(* ([exists |-> FALSE]), holds a JSON object (a record with its keys), or   *)
(* holds something else, named by `text`.  Time is counted in days.         *)

\* the record of SessionManager.login, lines 120-125
LoginSessionData(t) ==
    [exists |-> TRUE, logged_in |-> TRUE,
     timestamp |-> isoformat(t), expiry |-> Expiry(t)]

\* the record of SessionManager.oauth_login, lines 390-398
OAuthSessionData(t) ==
    [exists |-> TRUE, logged_in |-> TRUE,
     timestamp |-> isoformat(t), expiry |-> Expiry(t), login_method |-> "oauth"]

LoginPaths == {"login", "oauth_login", "inject_cookies"}

\* session_data of a login path that succeeds now
session_data(path) ==
    CASE path = "login" -> LoginSessionData(now)
      [] path = "oauth_login" -> OAuthSessionData(now)
      [] path = "inject_cookies" -> SessionData(1)

\* open(self.session_file, "w"): the file exists and is empty
Truncated == [exists |-> TRUE, text |-> "empty"]

\* what the file can hold before the program touches it
FileContents ==
    {[exists |-> FALSE],
     Truncated,
     [exists |-> TRUE, text |-> "unreadable"],
     [exists |-> TRUE, text |-> "not_json"],
     [exists |-> TRUE, text |-> "json_list"],
     [exists |-> TRUE, logged_in |-> FALSE, expiry |-> Expiry(0)],
     [exists |-> TRUE, expiry |-> Expiry(0)],
     [exists |-> TRUE, logged_in |-> TRUE],
     [exists |-> TRUE, logged_in |-> TRUE, expiry |-> [str |-> "soon"]],
     [exists |-> TRUE, logged_in |-> TRUE, expiry |-> [num |-> 1]],
     [exists |-> TRUE, logged_in |-> TRUE, expiry |-> isoformat(0)],
     LoginSessionData(0)}

\* open(...) and json.load(f), lines 265-266: the dict, or an exception
JsonLoad(file) ==
    IF "text" \in DOMAIN file /\ file.text # "json_list"
    THEN [raised |-> TRUE]
    ELSE [raised |-> FALSE, data |-> file]

\* datetime.fromisoformat(expiry_str), line 273
fromisoformat(expiry_str) ==
    IF IsType(expiry_str, "iso")
    THEN [raised |-> FALSE, value |-> expiry_str.iso]
    ELSE [raised |-> TRUE]

\* lines 264-277: the body of the try block
ValidityOf(file, t) ==
    LET loaded == JsonLoad(file) IN
    IF loaded.raised THEN [raised |-> TRUE]
    ELSE IF "text" \in DOMAIN loaded.data THEN [raised |-> TRUE]
    ELSE IF ~Get(loaded.data, "logged_in", FALSE)
         THEN [raised |-> FALSE, value |-> FALSE]
    ELSE IF "expiry" \notin DOMAIN loaded.data
         THEN [raised |-> FALSE, value |-> TRUE]
    ELSE LET expiry == fromisoformat(loaded.data.expiry) IN
         IF expiry.raised THEN [raised |-> TRUE]
         ELSE [raised |-> FALSE, value |-> ~(t > expiry.value)]

\* has_valid_session without its exception handler
has_valid_session_unguarded(file, t) ==
    IF ~file.exists THEN [raised |-> FALSE, value |-> FALSE]
    ELSE IF ValidityOf(file, t).raised THEN [raised |-> TRUE, value |-> FALSE]
    ELSE ValidityOf(file, t)

\* SessionManager.has_valid_session, lines 257-280
has_valid_session(file, t) ==
    IF ~file.exists THEN [raised |-> FALSE, value |-> FALSE]
    ELSE IF ValidityOf(file, t).raised THEN [raised |-> FALSE, value |-> FALSE]
    ELSE ValidityOf(file, t)

\* the injection flow but for the session file, and the rest of the state
\* the store leaves alone
injRest == <<cookies, ipc, sm_context, todo_urls, sm_valid_cookies,
             valid_cookies, invalid_cookies, next_cookie, injected_count,
             failed_count, injection_results, injection_report,
             mismatch_check, jar, page_view, logged_in, inject_result,
             add_calls, navs, file_writes>>

StoreFrame == UNCHANGED <<monVars, injRest, valVars, detVars, apiVars, closeVars>>

\* initialize(), lines 38-41: the profile directory of the browser context
ProfileDir == "session_manager_profile"

\* logout(), line 318
UserDataDir == "user_data"

\* a login path up to its save: initialize(), the browser steps, the login
\* check; a positive check opens the session file for writing, which
\* truncates it (lines 127, 400, 606)
LoginPath ==
    /\ spc = "idle"
    /\ \E path \in LoginPaths, end \in {"engine_failed", "not_logged_in", "logged_in"} :
         CASE end = "engine_failed" ->
                /\ last_op' = "login_failed"
                /\ UNCHANGED <<session_file, pending, previous, profile_dirs, spc>>
           [] end = "not_logged_in" ->
                /\ profile_dirs' = profile_dirs \cup {ProfileDir}
                /\ last_op' = "login_failed"
                /\ UNCHANGED <<session_file, pending, previous, spc>>
           [] end = "logged_in" ->
                /\ profile_dirs' = profile_dirs \cup {ProfileDir}
                /\ previous' = session_file
                /\ pending' = session_data(path)
                /\ session_file' = Truncated
                /\ spc' = "saving"
                /\ UNCHANGED last_op
    /\ valid_result' = [returned |-> FALSE]
    /\ UNCHANGED <<now, login_at, logged_out>>
    /\ StoreFrame

\* json.dump(session_data, f) and the return of the login path
SaveDump ==
    /\ spc = "saving"
    /\ session_file' = pending
    /\ spc' = "idle"
    /\ pending' = [exists |-> FALSE]
    /\ previous' = [exists |-> FALSE]
    /\ last_op' = "login_ok"
    /\ login_at' = now
    /\ logged_out' = FALSE
    /\ UNCHANGED <<now, profile_dirs, valid_result>>
    /\ StoreFrame

\* a call of has_valid_session()
CheckValid ==
    /\ spc = "idle"
    /\ valid_result' = [returned |-> TRUE] @@ has_valid_session(session_file, now)
    /\ UNCHANGED <<session_file, now, spc, pending, previous, profile_dirs,
                   last_op, login_at, logged_out>>
    /\ StoreFrame

\* logout without the os.remove of lines 312-314
LogoutKeepsRecord ==
    /\ spc = "idle"
    /\ previous' = session_file
    /\ profile_dirs' = profile_dirs \ {UserDataDir}
    /\ last_op' = "logout"
    /\ login_at' = -1
    /\ logged_out' = TRUE
    /\ valid_result' = [returned |-> FALSE]
    /\ UNCHANGED <<session_file, now, spc, pending>>
    /\ StoreFrame

\* SessionManager.logout, lines 309-324: the session file is removed when it
\* exists, the user_data directory is removed when it exists, and an
\* exception of either is logged, not raised.  previous keeps what the file
\* held when logout was called.
Logout ==
    /\ spc = "idle"
    /\ previous' = session_file
    /\ session_file' = [exists |-> FALSE]
    /\ profile_dirs' = profile_dirs \ {UserDataDir}
    /\ last_op' = "logout"
    /\ login_at' = -1
    /\ logged_out' = TRUE
    /\ valid_result' = [returned |-> FALSE]
    /\ UNCHANGED <<now, spc, pending>>
    /\ StoreFrame

\* a day passes
Tick ==
    /\ now < MaxDays
    /\ spc # "saving"
    /\ now' = now + 1
    /\ valid_result' = [returned |-> FALSE]
    /\ UNCHANGED <<session_file, spc, pending, previous, profile_dirs,
                   last_op, login_at, logged_out>>
    /\ StoreFrame

\* the process dies between open(..., "w") and json.dump
Crash ==
    /\ spc = "saving"
    /\ spc' = "crashed"
    /\ last_op' = "crash"
    /\ UNCHANGED <<session_file, now, pending, previous, profile_dirs,
                   valid_result, login_at, logged_out>>
    /\ StoreFrame

\* the service is started again
Restart ==
    /\ spc = "crashed"
    /\ spc' = "idle"
    /\ pending' = [exists |-> FALSE]
    /\ previous' = [exists |-> FALSE]
    /\ UNCHANGED <<session_file, now, profile_dirs, valid_result, last_op,
                   login_at, logged_out>>
    /\ StoreFrame

InitStore ==
    /\ MonitorIdle
    /\ DetectorIdle
    /\ ApiIdle
    /\ CloserIdle
    /\ ValidatorIdle
    /\ cookies = <<>> /\ ipc = "idle" /\ sm_context = "none"
    /\ todo_urls = <<>> /\ sm_valid_cookies = <<>> /\ valid_cookies = <<>>
    /\ invalid_cookies = <<>> /\ next_cookie = 0 /\ injected_count = 0
    /\ failed_count = 0 /\ injection_results = <<>>
    /\ injection_report = [returned |-> FALSE]
    /\ mismatch_check = [checked |-> FALSE]
    /\ jar = {} /\ page_view = [url |-> <<>>]
    /\ logged_in = FALSE /\ inject_result = [returned |-> FALSE]
    /\ add_calls = <<>> /\ navs = <<>> /\ file_writes = 0
    /\ session_file \in FileContents
    /\ now = 0 /\ spc = "idle" /\ pending = [exists |-> FALSE]
    /\ profile_dirs \in SUBSET {ProfileDir, UserDataDir}
    /\ valid_result = [returned |-> FALSE]
    /\ previous = [exists |-> FALSE] /\ last_op = "none"
    /\ login_at = -1 /\ logged_out = FALSE

NextStore ==
    \/ LoginPath
    \/ SaveDump
    \/ CheckValid
    \/ Logout
    \/ Tick

SpecStore == InitStore /\ [][NextStore]_vars

NextStoreCrash ==
    \/ LoginPath
    \/ SaveDump
    \/ CheckValid
    \/ Logout
    \/ Tick
    \/ Crash
    \/ Restart

\* the store when the process can die during a save
SpecStoreCrash == InitStore /\ [][NextStoreCrash]_vars

----------------------------------------------------------------------------
(* Properties of the session store *)

C12_CheckNeverRaises ==
    LET check == has_valid_session(session_file, now) IN
    /\ ~check.raised
    /\ ~session_file.exists => ~check.value
    /\ "text" \in DOMAIN session_file => ~check.value
    /\ ( /\ "expiry" \in DOMAIN session_file
         /\ IsType(session_file.expiry, "iso")
         /\ session_file.expiry.iso < now ) => ~check.value
    /\ session_file \in {session_data(path) : path \in LoginPaths} => check.value
    /\ valid_result.returned => valid_result = [returned |-> TRUE] @@ check

\* the check has answered false for a file that is not JSON
C12_Witness ==
    /\ valid_result.returned
    /\ session_file.exists
    /\ "text" \in DOMAIN session_file
    /\ session_file.text = "not_json"
    /\ valid_result = [returned |-> TRUE, raised |-> FALSE, value |-> FALSE]

\* C13: saving the session record replaces the file atomically: when the
\* process dies in the middle of a save over an existing record, the file
\* holds either the record it held before the save or the new record,
\* never anything else.
C13_SaveIsAtomic ==
    (spc = "crashed" /\ previous.exists) => session_file \in {previous, pending}

C15_LogoutDeletesProfile ==
    last_op = "logout" => ProfileDir \notin profile_dirs

----------------------------------------------------------------------------
(* Properties of the driver's lifecycle and of failures in the injection   *)
(* flow                                                                    *)

\* C16: the automation driver is a scoped resource: when inject_cookies
\* (like every session-affecting operation) has returned, on any exit path,
\* the page, context, browser and engine it acquired have been released.
C16_DriverReleasedAtExit ==
    (ipc = "done" /\ inject_result.returned) => sm_context = "none"

\* the engine did not start: initialize() raised before any navigation
EngineFailedToStart == ipc \in {"closing", "done"} /\ navs = <<>>

\* C17: a failure of the automation engine to start is fatal: inject_cookies
\* is aborted and the failure is raised to the caller, not returned as an
\* ordinary unsuccessful result.
C17_EngineFailureIsRaised ==
    (ipc = "done" /\ EngineFailedToStart) =>
        (inject_result.raised /\ ~inject_result.returned)

\* C18: a validation failure is per-record and never fatal: a batch that
\* holds an invalid record (no name, no value, expired) is not aborted by
\* the pass over its records, and every valid record of the batch goes on
\* to the injector.
C18_InvalidRecordNotFatal ==
    [][ipc = "filter" =>
         /\ ipc' # "closing"
         /\ ipc' = "validate" =>
              Cardinality(ValidInBatch) <= Len(sm_valid_cookies')]_vars

----------------------------------------------------------------------------
(* The validator alone: EnhancedCookieInjector.validate_cookie applied to  *)
(* one record.  The records are all the combinations of a name, a value,   *)
(* a domain and an expiry that are absent, empty or present.               *)

Absent == [has |-> FALSE]

Present(v) == [has |-> TRUE, v |-> v]

NameOptions ==
    {Absent, Present(""), Present("session_id"), Present("long_name")}

ValueOptions == {Absent, Present(""), Present("abc"), Present("huge")}

DomainOptions ==
    {Absent, Present(<<>>), Present(DotGrokCom), Present(<<"localhost">>),
     Present(HostGrokCom), Present(<<".", ".">> \o HostGrokCom),
     Present(<<".", "localhost">>), Present(<<"GROK", ".", "COM">>)}

\* in seven days, in the past, zero, negative, now, 1e10 itself, seven days
\* ahead in milliseconds, a number that is above 1e10 even after a division
\* by 1000, and a string
ExpiresOptions ==
    {Absent, Present([num |-> Now + 60]), Present([int |-> Now - 1]),
     Present([int |-> 0]), Present([int |-> -1]), Present([int |-> Now]),
     Present([int |-> MsThreshold]), Present([int |-> (Now + 60) * 1000]),
     Present([int |-> 2000000000]), Present([str |-> "never"])}

SameSiteOptions ==
    {Absent, Present(""), Present("Lax"), Present("LAX"),
     Present("no_restriction"), Present("unspecified"), Present("bogus")}

PathOptions == {Absent, Present("")}

FlagOptions == {Absent, Present([int |-> 1])}

\* the dict with or without the key
WithField(cookie, field, option) ==
    IF option.has THEN cookie @@ (field :> option.v) ELSE cookie

MakeRecord(n, v, d, e) ==
    WithField(WithField(WithField(WithField(<<>>,
        "name", n), "value", v), "domain", d), "expires", e)

Records ==
    {WithField(WithField(WithField(MakeRecord(n, v, d, e),
        "sameSite", s), "path", p), "httpOnly", h) :
        n \in NameOptions, v \in ValueOptions, d \in DomainOptions,
        e \in ExpiresOptions, s \in SameSiteOptions, p \in PathOptions,
        h \in FlagOptions}

\* a call of validate_cookie(record, 0)
Validate ==
    /\ ~validation.returned
    /\ validation' = [returned |-> TRUE] @@ validate_cookie(record, 0)
    /\ UNCHANGED <<record, revalidation>>
    /\ UNCHANGED <<monVars, injVars, storeVars, detVars, apiVars, closeVars>>

\* validate_cookie applied to the fixed record of a valid result
Revalidate ==
    /\ validation.returned
    /\ validation.valid
    /\ ~revalidation.returned
    /\ revalidation' = [returned |-> TRUE] @@ validate_cookie(validation.fixed, 0)
    /\ UNCHANGED <<record, validation>>
    /\ UNCHANGED <<monVars, injVars, storeVars, detVars, apiVars, closeVars>>

InitValidate ==
    /\ MonitorIdle
    /\ DetectorIdle
    /\ ApiIdle
    /\ CloserIdle
    /\ InjectorIdle
    /\ StoreIdle
    /\ record \in Records
    /\ validation = [returned |-> FALSE]
    /\ revalidation = [returned |-> FALSE]

NextValidate == Validate \/ Revalidate

SpecValidate == InitValidate /\ [][NextValidate]_vars

\* the field is absent from the record or holds an empty string (a domain
\* is a sequence of parts, a name or a value is one part)
MissingOrEmpty(cookie, field) ==
    \/ field \notin DOMAIN cookie
    \/ cookie[field] = (IF field = "domain" THEN <<>> ELSE "")

\* C19: for every record in which name or domain is missing or empty,
\* validate_cookie returns valid = false, an error that names the missing
\* field, and no fixed record.
C19_MissingFieldIsNamed ==
    validation.returned =>
        \A field \in {"name", "domain"} :
            MissingOrEmpty(record, field) =>
                /\ ~validation.valid
                /\ <<"missing", field>> \in validation.errors
                /\ validation.fixed = <<>>
                /\ \A other \in {"name", "value", "domain"} :
                       <<"missing", other>> \in validation.errors
                           => MissingOrEmpty(record, other)

\* a record with a name and a value and an empty domain has been refused
C19_Witness ==
    /\ validation.returned
    /\ record = [name |-> "session_id", value |-> "abc", domain |-> <<>>]
    /\ ~validation.valid
    /\ validation.errors = {<<"missing", "domain">>}

\* a record with a name, a domain and no expiry in the past
WellFormedButValue(cookie) ==
    /\ ~MissingOrEmpty(cookie, "name")
    /\ ~MissingOrEmpty(cookie, "domain")
    /\ "expires" \in DOMAIN cookie => cookie.expires = [num |-> Now + 60]

\* C20: a record whose value is the empty string and which is otherwise
\* well-formed is valid: the empty value gives a warning, not an error, and
\* the record keeps its fixed form for injection.
C20_EmptyValueIsWarning ==
    ( /\ validation.returned
      /\ "value" \in DOMAIN record
      /\ record.value = ""
      /\ WellFormedButValue(record) ) =>
        /\ validation.valid
        /\ validation.errors = {}
        /\ validation.warnings # {}
        /\ validation.fixed # <<>>

----------------------------------------------------------------------------
(* Properties of the validation result and of the repairs *)

\* C21: for every input record the validation result has valid = true
\* exactly when its error list is empty, and a fixed record exactly when it
\* is valid; warnings do not count.
C21_ValidIffNoErrors ==
    /\ validation.returned =>
         /\ validation.valid <=> validation.errors = {}
         /\ validation.fixed # <<>> <=> validation.valid
         /\ validation.valid => validation.fixed.name = record.name
    /\ revalidation.returned =>
         /\ revalidation.valid <=> revalidation.errors = {}
         /\ revalidation.fixed # <<>> <=> revalidation.valid

\* a record with three warnings and no error is valid and has a fixed form
C21_Witness ==
    /\ validation.returned
    /\ validation.valid
    /\ validation.errors = {}
    /\ validation.warnings =
           {<<"domain_dot">>, <<"path">>, <<"not_bool", "httpOnly">>}
    /\ validation.fixed # <<>>

\* the domain of the record in lower case, without its leading dots
StrippedDomain == LStripPart(Lower(record.domain), ".")

\* the stripped domain holds a label separator
MultiLabel == CountPart(StrippedDomain, ".") >= 1

\* C22 (as amended): for every non-empty domain the fixed domain is the
\* input in lower case with all leading dots stripped, prefixed by exactly
\* one dot if the stripped domain contains a label separator or the caller
\* supplied a leading dot, and left bare otherwise: grok.com becomes
\* .grok.com, localhost stays localhost, and the fixed domain carries a
\* leading dot iff the host is multi-label or came with a leading dot.
C22_DomainRepair ==
    (validation.returned /\ validation.valid) =>
        LET fixed == validation.fixed.domain IN
        /\ LStripPart(fixed, ".") = StrippedDomain
        /\ Len(fixed) <= Len(StrippedDomain) + 1
        /\ StartsWith(fixed, <<".">>) <=>
               (MultiLabel \/ StartsWith(record.domain, <<".">>))
        /\ record.domain = HostGrokCom => fixed = DotGrokCom
        /\ record.domain = <<"localhost">> => fixed = <<"localhost">>

\* .localhost keeps the dot it came with
C22_Witness ==
    /\ validation.returned
    /\ validation.valid
    /\ record.domain = <<".", "localhost">>
    /\ validation.fixed.domain = <<".", "localhost">>

\* C22 (as stated): after normalization a domain carries a leading dot iff
\* it is a multi-label host.
C22_DotIffMultiLabel ==
    (validation.returned /\ validation.valid) =>
        (StartsWith(validation.fixed.domain, <<".">>) <=> MultiLabel)

\* C23: a numeric expires greater than 10^10 is taken to be milliseconds:
\* the fixed expires is exactly the input divided by 1000 and a warning is
\* given; a numeric expires of at most 10^10 is kept unchanged, without
\* that warning.
C23_MillisecondsRepair ==
    (validation.returned /\ ExpiresIsNumber(record)) =>
        LET raw == RawExpires(record) IN
        IF raw > MsThreshold
        THEN /\ <<"expires_ms">> \in validation.warnings
             /\ validation.valid =>
                    /\ IsType(validation.fixed.expires, "num")
                    /\ validation.fixed.expires.num = raw \div 1000
                    /\ raw % 1000 = 0
        ELSE /\ <<"expires_ms">> \notin validation.warnings
             /\ validation.valid => validation.fixed.expires = [num |-> raw]

\* an expiry seven days ahead, given in milliseconds, comes out in seconds
C23_Witness ==
    /\ validation.returned
    /\ validation.valid
    /\ HasExpires(record)
    /\ record.expires = [int |-> (Now + 60) * 1000]
    /\ validation.fixed.expires = [num |-> Now + 60]
    /\ <<"expires_ms">> \in validation.warnings

\* C24: once expires is in seconds, a record whose expires is at most now
\* is invalid with an 'expired' error, and a record whose expires is at
\* most 0 is a session cookie: it gets a 'session cookie' warning and the
\* expiry gives no error.
C24_ExpiredAndSessionCookies ==
    (validation.returned /\ ExpiresIsNumber(record)) =>
        LET seconds == EpochTs(record) IN
        /\ (seconds > 0 /\ seconds <= Now) =>
               (<<"expired">> \in validation.errors /\ ~validation.valid)
        /\ seconds <= 0 =>
               /\ <<"expired">> \notin validation.errors
               /\ \E w \in validation.warnings : w[1] = "session_cookie"

\* the sameSite value of the record in lower case, "" when there is none
SameSiteLower == LowerStr(Get(record, "sameSite", ""))

\* C25: after validate_cookie the fixed record's sameSite is absent or one
\* of Lax, Strict, None; lax, strict, none and no_restriction are mapped,
\* whatever their case, to Lax, Strict, None and None; every other
\* non-empty value is dropped with a warning; an absent value stays absent.
C25_SameSiteRepair ==
    (validation.returned /\ validation.valid) =>
        LET fixed == validation.fixed IN
        /\ "sameSite" \in DOMAIN fixed => fixed.sameSite \in {"Lax", "Strict", "None"}
        /\ SameSiteLower = "lax" => Get(fixed, "sameSite", "") = "Lax"
        /\ SameSiteLower = "strict" => Get(fixed, "sameSite", "") = "Strict"
        /\ SameSiteLower \in {"none", "no_restriction"} =>
               Get(fixed, "sameSite", "") = "None"
        /\ SameSiteLower \notin {"", "lax", "strict", "none", "no_restriction"} =>
               /\ "sameSite" \notin DOMAIN fixed
               /\ <<"samesite_removed">> \in validation.warnings
        /\ "sameSite" \notin DOMAIN record => "sameSite" \notin DOMAIN fixed

\* C26: a record whose name and value together are longer than 4096 is
\* invalid, with a size error, and a record whose name is longer than 1024
\* gets a warning.
C26_SizeCheck ==
    (validation.returned /\ RequiredFieldErrors(record) = {}) =>
        /\ StrLen(record.name) + StrLen(record.value) > 4096 =>
               /\ ~validation.valid
               /\ \E e \in validation.errors : e[1] = "size"
        /\ StrLen(record.name) > 1024 =>
               \E w \in validation.warnings : w[1] \in {"size", "name_size"}

\* C27: normalization is idempotent: for every record that validates,
\* validate_cookie applied to its fixed record gives a valid result whose
\* fixed record is the same one, also when expires was converted from
\* milliseconds.
C27_NormalizationIdempotent ==
    revalidation.returned =>
        /\ revalidation.valid
        /\ revalidation.fixed = validation.fixed

----------------------------------------------------------------------------
(* The login classifiers alone: SessionManager._check_login_success and    *)
(* the per-page check of the monitor, applied to one surface (a page and   *)
(* the cookie jar of its context).                                         *)

SurfaceUrls ==
    {UrlGrokApp, UrlGrokLogin,
     UrlGrokApp \o <<"/", "signin">>,
     UrlGrokApp \o <<"/", "auth", "/", "callback">>,
     UrlGrokApp \o <<"/", "oauth", "/", "start">>,
     UrlXai, Https(HostGrokAi), UrlGoogle,
     <<"https", "://", "example", ".", "com">>,
     <<"https", "://", "example", ".", "com", "/", "home">>}

\* self.context.cookies(): one cookie with an auth keyword in its name and
\* three without
JarNames == {"session_id", "theme", "pref", "lang"}

Jars == {{[name |-> n] : n \in names} : names \in SUBSET JarNames}

\* url: page.url; indicator: one of the selectors of lines 159-185 is
\* attached; login_button: one of the selectors of lines 197-203 is found;
\* chat_elements: the selectors of cookie_extractor.py:547-550 match
Surfaces ==
    [url : SurfaceUrls, indicator : BOOLEAN, login_button : BOOLEAN,
     chat_elements : BOOLEAN, cookies : Jars]

\* the detector gets as far as self.context.cookies() (lines 223, 228)
ReachesCookies(view) ==
    /\ ~\E kw \in SmLoginKeywords : Contains(view.url, kw)
    /\ ~( /\ \/ Contains(view.url, HostGrokCom)
             \/ Contains(view.url, <<"grok", ".", "x", ".", "ai">>)
          /\ view.indicator )
    /\ ~view.login_button

\* a call of _check_login_success(); context.cookies() may raise, and the
\* except of lines 253-255 then returns False
CheckLoginSuccess ==
    /\ ~detection.returned
    /\ \E cookies_raise \in BOOLEAN :
         LET error == cookies_raise /\ ReachesCookies(surface) IN
         detection' =
             [returned |-> TRUE, by |-> "detector", error |-> error,
              value |-> IF error THEN FALSE
                        ELSE _check_login_success(surface, surface.cookies)]
    /\ UNCHANGED surface
    /\ UNCHANGED <<monVars, injVars, storeVars, valVars, apiVars, closeVars>>

\* cookie_extractor.py:543-566: the check of one page by the monitor
login_completed(url, chat_elements) ==
    OnGrok(url) /\ chat_elements /\ ~is_login_page(url)

\* the monitor checks the page; query_selector_all may raise, and the
\* except of lines 575-576 then goes on to the next page
PageCheck ==
    /\ ~detection.returned
    /\ \E query_raises \in BOOLEAN :
         LET error == query_raises /\ OnGrok(surface.url) IN
         detection' =
             [returned |-> TRUE, by |-> "monitor", error |-> error,
              value |-> IF error THEN FALSE
                        ELSE login_completed(surface.url, surface.chat_elements)]
    /\ UNCHANGED surface
    /\ UNCHANGED <<monVars, injVars, storeVars, valVars, apiVars, closeVars>>

InitDetect ==
    /\ MonitorIdle
    /\ InjectorIdle
    /\ StoreIdle
    /\ ValidatorIdle
    /\ ApiIdle
    /\ CloserIdle
    /\ surface \in Surfaces
    /\ detection = [returned |-> FALSE]

NextDetect == CheckLoginSuccess \/ PageCheck

SpecDetect == InitDetect /\ [][NextDetect]_vars

\* the URL matches login, signin, auth/ or oauth/
OnLoginUrl == \E kw \in LoginKeywords : Contains(surface.url, kw)

\* C28: a surface whose URL matches a login/auth pattern (login, signin,
\* auth/, oauth/) is classified as not logged in, whatever elements the
\* page shows and whatever the jar holds, by the detector and by the
\* monitor's per-page check.
C28_LoginUrlIsNotLoggedIn ==
    (detection.returned /\ OnLoginUrl) => ~detection.value

\* the detector refuses a signin URL that shows the app and has an auth cookie
C28_Witness ==
    /\ detection.returned
    /\ detection.by = "detector"
    /\ surface.url = UrlGrokApp \o <<"/", "signin">>
    /\ surface.indicator
    /\ [name |-> "session_id"] \in surface.cookies
    /\ ~detection.error
    /\ ~detection.value

\* C29: explicit negative signals override positive ones: a surface that
\* shows a 'Sign in' or 'Log in' control is never classified as logged in
\* by the detector, also when it is on the trusted domain and shows
\* app-interface elements or the jar holds auth-named cookies.
C29_SignInControlIsNotLoggedIn ==
    (detection.returned /\ detection.by = "detector" /\ surface.login_button)
        => ~detection.value

\* the URL is under the trusted domain of the application
OnTrustedDomain ==
    \/ Contains(surface.url, HostGrokCom)
    \/ Contains(surface.url, <<"grok", ".", "x", ".", "ai">>)

\* none of the first four rules of the detector applies
NoRuleApplies ==
    /\ ~\E kw \in SmLoginKeywords : Contains(surface.url, kw)
    /\ ~surface.indicator
    /\ ~surface.login_button
    /\ ~\E c \in surface.cookies : IsSessionName(c.name)

\* C30: when none of the first four rules applies, the detector returns
\* true only if the jar holds at least 3 cookies and the URL is under the
\* trusted domain, and false in every other case, an empty jar and an
\* error while inspecting the page included.
C30_FallbackNeedsThreeCookies ==
    (detection.returned /\ detection.by = "detector" /\ NoRuleApplies) =>
        /\ detection.value =>
               (Cardinality(surface.cookies) >= 3 /\ OnTrustedDomain)
        /\ (surface.cookies = {} \/ detection.error) => ~detection.value

----------------------------------------------------------------------------
(* The HTTP handlers of api/routers/grok.py and api/routers/session.py *)

\* raise HTTPException(status_code=..., detail=...)
HTTPException(status_code, detail) ==
    [raised |-> TRUE, status_code |-> status_code, detail |-> detail]

\* the handler returns a body
Returns(body) == [raised |-> FALSE, body |-> body]

\* str(status_code)
StatusText(status_code) ==
    CASE status_code = 400 -> "400"
      [] status_code = 401 -> "401"
      [] status_code = 404 -> "404"
      [] OTHER -> "500"

\* str(e) of an HTTPException: "<status_code>: <detail>"
StrOfException(e) == <<StatusText(e.status_code), ": ">> \o e.detail

\* try: <body>  except Exception as e: raise HTTPException(500, prefix + str(e))
\* HTTPException is a subclass of Exception, so the clause also catches the
\* HTTPException raised inside the try block
CatchException(body, prefix) ==
    IF body.raised
    THEN HTTPException(500, <<prefix>> \o StrOfException(body))
    ELSE body

\* try: <body>  except HTTPException: raise  except Exception as e: ...
ReraiseHTTPException(body, prefix) == body

NoValidSession == <<"No valid session. Please login first.">>

\* grok.py:20-52; generated: what GrokService.generate_image returned
generate_image(has_session, generated) ==
    CatchException(
        IF ~has_session THEN HTTPException(401, NoValidSession)
        ELSE Returns(generated),
        "Image generation failed: ")

\* grok.py:54-86
generate_video(has_session, generated) ==
    CatchException(
        IF ~has_session THEN HTTPException(401, NoValidSession)
        ELSE Returns(generated),
        "Video generation failed: ")

LoginFailedDetail == <<"Login failed. Please check credentials.">>

OAuthFailedDetail ==
    <<"OAuth login failed. Invalid authorization code or provider.">>

InjectFailedDetail ==
    <<"Session injection failed. Invalid or expired cookies.">>

GrokInjectFailedDetail ==
    <<"Session validation failed after cookie injection.">>

\* session.py:111-137; success: what SessionManager.login returned
login(success) ==
    CatchException(
        IF success THEN Returns("Login successful")
        ELSE HTTPException(401, LoginFailedDetail),
        "Login failed: ")

\* session.py:173-205
oauth_login(success) ==
    CatchException(
        IF success THEN Returns("OAuth login successful")
        ELSE HTTPException(401, OAuthFailedDetail),
        "OAuth login failed: ")

\* session.py:207-238
inject_cookies(success) ==
    CatchException(
        IF success THEN Returns("Cookies injected successfully")
        ELSE HTTPException(401, InjectFailedDetail),
        "Cookie injection failed: ")

\* session.py:470-556: this handler has `except HTTPException: raise`
\* before its `except Exception`
inject_grok_cookies(has_cookies, success) ==
    ReraiseHTTPException(
        IF ~has_cookies
        THEN HTTPException(400, <<"No cookies provided for injection">>)
        ELSE IF success THEN Returns("Cookies injected successfully.")
        ELSE HTTPException(401, GrokInjectFailedDetail),
        "Cookie injection failed: ")

\* what FastAPI sends for the handler's outcome: the status code and detail
\* of a raised HTTPException, 200 and the body otherwise
Respond(handled) ==
    IF handled.raised
    THEN [sent |-> TRUE, status_code |-> handled.status_code,
          detail |-> handled.detail]
    ELSE [sent |-> TRUE, status_code |-> 200, detail |-> <<>>]

\* one request to POST /api/grok/image or /api/grok/video
Generate ==
    \E endpoint \in {"/api/grok/image", "/api/grok/video"},
       has_session \in BOOLEAN, generated \in BOOLEAN :
        /\ request' = [endpoint |-> endpoint, has_session |-> has_session,
                       success |-> has_session /\ generated]
        /\ response' =
             Respond(IF endpoint = "/api/grok/image"
                     THEN generate_image(has_session, generated)
                     ELSE generate_video(has_session, generated))
        /\ UNCHANGED <<tasks, extractions, call>>
        /\ UNCHANGED <<monVars, injVars, storeVars, valVars, detVars, closeVars>>

\* one request to a login endpoint of /api/session
LoginRequest ==
    \E endpoint \in {"/api/session/login", "/api/session/oauth-login",
                     "/api/session/inject-cookies"},
       success \in BOOLEAN :
        /\ request' = [endpoint |-> endpoint, has_session |-> FALSE,
                       success |-> success]
        /\ response' =
             Respond(CASE endpoint = "/api/session/login" -> login(success)
                       [] endpoint = "/api/session/oauth-login" ->
                             oauth_login(success)
                       [] OTHER -> inject_cookies(success))
        /\ UNCHANGED <<tasks, extractions, call>>
        /\ UNCHANGED <<monVars, injVars, storeVars, valVars, detVars, closeVars>>

\* one request to POST /api/session/inject-grok-cookies
InjectGrokCookiesRequest ==
    \E has_cookies \in BOOLEAN, success \in BOOLEAN :
        /\ request' = [endpoint |-> "/api/session/inject-grok-cookies",
                       has_session |-> FALSE,
                       success |-> has_cookies /\ success]
        /\ response' = Respond(inject_grok_cookies(has_cookies, success))
        /\ UNCHANGED <<tasks, extractions, call>>
        /\ UNCHANGED <<monVars, injVars, storeVars, valVars, detVars, closeVars>>

----------------------------------------------------------------------------
(* ExtractionTask (services/cookie_extractor.py:774-812)                    *)
(* The registry is a function over TaskIds; NoTask stands for a key that   *)
(* is not in the dict.  The timestamps created_at and updated_at are left  *)
(* out.                                                                    *)

\* an empty dict
EmptyDict == [empty |-> TRUE]

\* bool(result) of a result that is None or a dict
TruthyResult(value) == value # None /\ value # EmptyDict

\* cookie_extractor.py:782-792; task_id is what uuid.uuid4() returned
create_task(registry, task_id, timeout) ==
    [registry EXCEPT ![task_id] =
        [status |-> "waiting_for_login", timeout |-> timeout,
         result |-> None]]

\* an update that also creates the entry
update_task_creating(registry, task_id, status, new_result) ==
    [registry EXCEPT ![task_id] =
        [status |-> status, timeout |-> 600, result |-> new_result]]

\* cookie_extractor.py:795-801
update_task(registry, task_id, status, new_result) ==
    IF registry[task_id] # NoTask
    THEN [registry EXCEPT ![task_id] =
            [@ EXCEPT !.status = status,
                      !.result = IF TruthyResult(new_result) THEN new_result
                                ELSE @]]
    ELSE registry

\* cookie_extractor.py:804-806
get_task(registry, task_id) ==
    IF registry[task_id] = NoTask THEN None ELSE registry[task_id]

\* cookie_extractor.py:809-812
delete_task(registry, task_id) ==
    IF registry[task_id] # NoTask
    THEN [registry EXCEPT ![task_id] = NoTask]
    ELSE registry

\* the timeouts given to create_task
TaskTimeouts == {60, 600}

\* the statuses given to update_task; the registry does not interpret them
TaskStatuses == {"waiting_for_login", "completed", "failed"}

\* the results given to update_task
TaskResults ==
    {None, EmptyDict, [status |-> "success"], [status |-> "error"]}

\* uuid.uuid4() returns an id that no entry of the registry has and that
\* no earlier request was given
FreshIds ==
    {id \in TaskIds : tasks[id] = NoTask /\ extractions[id].state = "none"}

RegistryFrame ==
    /\ UNCHANGED <<request, response, extractions>>
    /\ UNCHANGED <<monVars, injVars, storeVars, valVars, detVars, closeVars>>

CreateTask ==
    \E task_id \in FreshIds, timeout \in TaskTimeouts :
        /\ tasks' = create_task(tasks, task_id, timeout)
        /\ call' = [op |-> "create_task", id |-> task_id,
                    timeout |-> timeout, returned |-> task_id]
        /\ RegistryFrame

UpdateTask ==
    \E task_id \in TaskIds, status \in TaskStatuses,
       new_result \in TaskResults :
        /\ tasks' = update_task(tasks, task_id, status, new_result)
        /\ call' = [op |-> "update_task", id |-> task_id, status |-> status,
                    result |-> new_result, returned |-> None]
        /\ RegistryFrame

GetTask ==
    \E task_id \in TaskIds :
        /\ call' = [op |-> "get_task", id |-> task_id,
                    returned |-> get_task(tasks, task_id)]
        /\ UNCHANGED tasks
        /\ RegistryFrame

DeleteTask ==
    \E task_id \in TaskIds :
        /\ tasks' = delete_task(tasks, task_id)
        /\ call' = [op |-> "delete_task", id |-> task_id, returned |-> None]
        /\ RegistryFrame

InitRegistry ==
    /\ MonitorIdle
    /\ InjectorIdle
    /\ StoreIdle
    /\ ValidatorIdle
    /\ DetectorIdle
    /\ ApiIdle
    /\ CloserIdle

NextRegistry == CreateTask \/ UpdateTask \/ GetTask \/ DeleteTask

SpecRegistry == InitRegistry /\ [][NextRegistry]_vars

\* C32: create_task adds an entry under an id that no entry had, with status
\* 'waiting_for_login', the given timeout and no result, and returns the id;
\* update_task sets the status (and a non-empty result) of an existing entry
\* and creates none; after delete_task(id), get_task(id) returns None; no
\* call changes the entry of another id.
C32_RegistryOperations ==
    [][ LET id == call'.id IN
        /\ call'.op = "create_task" =>
              /\ tasks[id] = NoTask
              /\ call'.returned = id
              /\ tasks'[id] = [status |-> "waiting_for_login",
                               timeout |-> call'.timeout, result |-> None]
        /\ call'.op = "update_task" =>
              IF tasks[id] = NoTask THEN tasks'[id] = NoTask
              ELSE /\ tasks'[id] # NoTask
                   /\ tasks'[id].status = call'.status
                   /\ tasks'[id].timeout = tasks[id].timeout
                   /\ tasks'[id].result \in {call'.result, tasks[id].result}
                   /\ TruthyResult(call'.result) =>
                          tasks'[id].result = call'.result
        /\ call'.op = "get_task" => tasks' = tasks
        /\ call'.op = "delete_task" => get_task(tasks', id) = None
        /\ \A other \in TaskIds \ {id} : tasks'[other] = tasks[other]
      ]_vars

\* an existing entry was updated with a result while another id has an
\* entry that is still waiting
C32_Witness ==
    /\ call.op = "update_task"
    /\ tasks[call.id] # NoTask
    /\ tasks[call.id].status = "completed"
    /\ tasks[call.id].result = [status |-> "success"]
    /\ tasks[call.id].timeout = 60
    /\ \E other \in TaskIds \ {call.id} :
          /\ tasks[other] # NoTask
          /\ tasks[other].status = "waiting_for_login"
          /\ tasks[other].timeout = 600

----------------------------------------------------------------------------
(* Manual extraction: POST /extract-grok-cookies-manual, its background    *)
(* coroutine run_extraction() and GET /extract-grok-status/{task_id}       *)

\* request.timeout: Optional[int], 60..1800 when it is a number
ManualTimeouts == {None, [int |-> 600]}

\* how extract_grok_cookies_with_manual_oauth can end: with a result whose
\* status is success, cancelled or error (cookie_extractor.py:640-739), or
\* with an exception
ExtractionOutcomes == {"success", "cancelled", "error", "raises"}

\* run_extraction without its `except Exception`: an extraction that raises
\* leaves the status as it was
StatusOfOutcomeUncaught(ending) ==
    CASE ending = "success" -> "completed"
      [] ending = "cancelled" -> "cancelled"
      [] ending = "error" -> "failed"
      [] OTHER -> "waiting_for_login"

\* session.py:436-449: the status and the result run_extraction records
StatusOfOutcome(ending) ==
    CASE ending = "success" -> "completed"
      [] ending = "cancelled" -> "cancelled"
      [] OTHER -> "failed"

ResultOfOutcome(ending) ==
    CASE ending = "success" -> [status |-> "success"]
      [] ending = "cancelled" -> [status |-> "cancelled"]
      [] ending = "error" -> [status |-> "error"]
      [] OTHER -> [status |-> "error", error_message |-> "str(e)"]

\* session.py:404-467.  The coroutine is scheduled (line 452) before the
\* response model is built (lines 454-459); ManualOAuthResponse requires an
\* int, so a null timeout raises there and the handler deletes the task and
\* answers 500 while the coroutine stays scheduled.
ExtractGrokCookiesManual ==
    \E task_id \in FreshIds, timeout \in ManualTimeouts :
        LET created == create_task(tasks, task_id, timeout) IN
        /\ extractions' = [extractions EXCEPT ![task_id] = [state |-> "running"]]
        /\ request' = [endpoint |-> "/api/session/extract-grok-cookies-manual",
                       has_session |-> FALSE, success |-> timeout # None]
        /\ IF timeout # None
           THEN /\ tasks' = created
                /\ response' =
                     [sent |-> TRUE, status_code |-> 200, detail |-> <<>>,
                      status |-> "waiting_for_login", task_id |-> task_id]
           ELSE /\ tasks' = delete_task(created, task_id)
                /\ response' =
                     Respond(HTTPException(500,
                         <<"Failed to start extraction: ", "str(e)">>))
        /\ UNCHANGED call
        /\ UNCHANGED <<monVars, injVars, storeVars, valVars, detVars, closeVars>>

\* session.py:429-449: run_extraction() of one task ends
RunExtraction(task_id) ==
    /\ extractions[task_id].state = "running"
    /\ \E ending \in ExtractionOutcomes :
        /\ tasks' = update_task(tasks, task_id, StatusOfOutcome(ending),
                                ResultOfOutcome(ending))
        /\ extractions' = [extractions EXCEPT ![task_id] =
                              [state |-> "ended", ending |-> ending]]
    /\ UNCHANGED <<request, response, call>>
    /\ UNCHANGED <<monVars, injVars, storeVars, valVars, detVars, closeVars>>

RunExtractionEnds == \E task_id \in TaskIds : RunExtraction(task_id)

\* session.py:559-607
get_extraction_status(registry, task_id) ==
    LET task == get_task(registry, task_id) IN
    IF task = None
    THEN HTTPException(404, <<"Task not found: ", "task_id">>)
    ELSE Returns([task_id |-> task_id, status |-> task.status])

GetExtractionStatus ==
    \E task_id \in TaskIds :
        LET handled == get_extraction_status(tasks, task_id) IN
        /\ request' = [endpoint |-> "/api/session/extract-grok-status",
                       has_session |-> FALSE, success |-> ~handled.raised,
                       task_id |-> task_id,
                       extraction |-> extractions[task_id]]
        /\ response' =
             IF handled.raised THEN Respond(handled)
             ELSE [sent |-> TRUE, status_code |-> 200, detail |-> <<>>,
                   status |-> handled.body.status, task_id |-> task_id]
        /\ UNCHANGED <<tasks, extractions, call>>
        /\ UNCHANGED <<monVars, injVars, storeVars, valVars, detVars, closeVars>>

InitApi == InitRegistry

NextApi ==
    \/ Generate
    \/ LoginRequest
    \/ InjectGrokCookiesRequest
    \/ ExtractGrokCookiesManual
    \/ RunExtractionEnds
    \/ GetExtractionStatus

SpecApi == InitApi /\ [][NextApi]_vars

\* the manual extraction alone
NextTasks ==
    \/ ExtractGrokCookiesManual
    \/ RunExtractionEnds
    \/ GetExtractionStatus

\* a scheduled coroutine runs to its end: every await of the extraction
\* has a timeout
SpecTasksFair ==
    /\ InitApi
    /\ [][NextTasks]_vars
    /\ \A task_id \in TaskIds : WF_vars(RunExtraction(task_id))

\* the handler raised HTTPException(401) for the request
Rejected401 ==
    /\ response.sent
    /\ \/ /\ request.endpoint \in {"/api/grok/image", "/api/grok/video"}
          /\ ~request.has_session
       \/ /\ request.endpoint \in {"/api/session/login",
                                   "/api/session/oauth-login",
                                   "/api/session/inject-cookies"}
          /\ ~request.success

\* the detail text of the handler's HTTPException(401)
DetailOf401 ==
    CASE request.endpoint \in {"/api/grok/image", "/api/grok/video"} ->
            NoValidSession
      [] request.endpoint = "/api/session/login" -> LoginFailedDetail
      [] request.endpoint = "/api/session/oauth-login" -> OAuthFailedDetail
      [] OTHER -> InjectFailedDetail

\* C31: a request that the handler rejects with HTTP 401 (image or video
\* generation without a valid session; an unsuccessful login, oauth-login or
\* inject-cookies) reaches the client as status 401 with the handler's
\* detail text.
C31_Rejected401ReachesClient ==
    Rejected401 =>
        /\ response.status_code = 401
        /\ response.detail = DetailOf401

TerminalStatuses == {"completed", "cancelled", "failed"}

\* the status that goes with the way an extraction ended
ExpectedStatus(extraction) ==
    CASE extraction.ending = "success" -> "completed"
      [] extraction.ending = "cancelled" -> "cancelled"
      [] OTHER -> "failed"

\* C40: every task started by POST /extract-grok-cookies-manual eventually
\* leaves 'waiting_for_login'; once its background extraction has ended, its
\* status is 'completed', 'cancelled' or 'failed' according to the way the
\* extraction ended (an exception gives 'failed'), the status endpoint
\* reports that status, and a terminal status never changes again.
C40_TaskReachesTerminalStatus ==
    /\ \A id \in TaskIds :
          (tasks[id] # NoTask /\ tasks[id].status = "waiting_for_login")
             ~> (tasks[id] # NoTask /\ tasks[id].status \in TerminalStatuses)
    /\ [](\A id \in TaskIds :
             (extractions[id].state = "ended" /\ tasks[id] # NoTask) =>
                 tasks[id].status = ExpectedStatus(extractions[id]))
    /\ []( ( /\ request.endpoint = "/api/session/extract-grok-status"
             /\ request.extraction.state = "ended"
             /\ response.status_code = 200 ) =>
                 response.status = ExpectedStatus(request.extraction) )
    /\ [][ \A id \in TaskIds :
              (tasks[id] # NoTask /\ tasks[id].status \in TerminalStatuses)
                 => tasks'[id] = tasks[id] ]_vars

\* the extraction of a task raised, and the status endpoint then answered
\* 'failed' for it while another task is still waiting for its login
C40_Witness ==
    /\ request.endpoint = "/api/session/extract-grok-status"
    /\ request.extraction = [state |-> "ended", ending |-> "raises"]
    /\ response.status_code = 200
    /\ response.status = "failed"
    /\ tasks[request.task_id].status = "failed"
    /\ \E other \in TaskIds \ {request.task_id} :
          /\ tasks[other] # NoTask
          /\ tasks[other].status = "waiting_for_login"
          /\ extractions[other].state = "running"

----------------------------------------------------------------------------
(* Order and origin of the navigations and of the add_cookies calls *)

\* the navigations made so far before any cookie was added are all those
\* of the two bootstrap loops
BootstrapFinished ==
    /\ todo_urls = <<>>
    /\ Len(navs) = Len(bootstrap_urls(cookies)) + Len(prime_urls(valid_cookies))

\* C33: every bootstrap navigation (those of SessionManager.inject_cookies
\* and those of phase 2 of the injector, made one after the other on the one
\* page) has finished before the first context.add_cookies call, and no
\* navigation is issued between two add_cookies calls.
C33_BootstrapPrecedesInjection ==
    [][ /\ (add_calls = <<>> /\ add_calls' # <<>>) => BootstrapFinished
        /\ add_calls' # add_calls => navs' = navs
        /\ (navs' # navs /\ add_calls # <<>>) =>
               Len(add_calls) = Len(valid_cookies)
      ]_vars

\* two bootstrap visits of the injector, then two add_cookies calls, then
\* the navigation that applies the cookies
C33_Witness ==
    /\ Len(add_calls) = 2
    /\ Len(prime_urls(valid_cookies)) = 2
    /\ Len(navs) = Len(bootstrap_urls(cookies)) + 3
    /\ ipc = "check"

\* the origins navigated to so far
VisitedOrigins == {navs[i].url : i \in DOMAIN navs}

\* the origins of the domains of the records that passed validation
ValidOrigins == {visit_url(valid_cookies[j]) : j \in DOMAIN valid_cookies}

\* C34: when the injection starts, the flow has navigated to an origin only
\* if a record that passed validation references its domain, and it has
\* visited the origin of each distinct domain of the valid records.
C34_BootstrapOriginsAreValidDomains ==
    (ipc = "inject" /\ add_calls = <<>>) => VisitedOrigins = ValidOrigins

\* every domain of the valid records is visited before the injection
ValidDomainsAreVisited ==
    (ipc = "inject" /\ add_calls = <<>>) => ValidOrigins \subseteq VisitedOrigins

\* the host belongs to the cookie domain: it is the domain or a host under it
BelongsTo(host, domain) ==
    LET bare == IF StartsWith(domain, <<".">>) THEN Tail(domain) ELSE domain
    IN  \/ host = bare
        \/ /\ Len(host) > Len(bare) + 1
           /\ SubSeq(host, Len(host) - Len(bare), Len(host)) = <<".">> \o bare

\* the post-injection navigation has been made and the page is loaded
PageApplied == ipc \in {"check", "done"} /\ page_view.url # <<>>

\* C35: the report carries the 'domain mismatch' recommendation exactly when
\* the origin of the page, as it is after the post-injection navigation to
\* the application's URL, belongs to none of the injected cookies' domains.
C35_MismatchCheckedAfterNavigation ==
    (PageApplied /\ mismatch_check.checked) =>
        ( mismatch_check.mismatch <=>
            ~\E j \in DOMAIN valid_cookies :
                BelongsTo(Netloc(page_view.url), valid_cookies[j].domain) )

----------------------------------------------------------------------------
(* The return value of the monitor *)

\* C36: _wait_for_login_completion returns True only if on some tick a page
\* was classified as logged in; it returns False when the loop ended at its
\* 600-tick ceiling, because the context was missing or closed, because the
\* stop flag was set, or by the timeout.
C36_TrueOnlyAfterDetection ==
    (MonitorDone /\ result) =>
        (first_pos_tick > 0 /\ exit_path = "login_completed")

----------------------------------------------------------------------------
(* What reaches context.add_cookies *)

\* the records of the batch the injected cookie was made from (the records
\* of CookiePool have different names)
SourcesOf(cookie) ==
    {i \in DOMAIN cookies : Get(cookies[i], "name", "") = cookie.name}

\* C37: every cookie passed to context.add_cookies is the fixed form of a
\* record that passed validate_cookie, so no record of the batch that
\* validate_cookie rejects (missing field, expired, expires of a bad type)
\* is ever injected.
C37_OnlyValidatedCookiesInjected ==
    \A k \in DOMAIN add_calls :
        /\ \E r \in DOMAIN sm_valid_cookies :
              /\ validate_cookie(sm_valid_cookies[r], r - 1).valid
              /\ add_calls[k].cookies =
                    <<validate_cookie(sm_valid_cookies[r], r - 1).fixed>>
        /\ \A i \in SourcesOf(add_calls[k].cookies[1]) :
              validate_cookie(cookies[i], i - 1).valid

\* the injector itself passes on nothing but fixed forms of its valid input
InjectorPassesFixedForms ==
    \A k \in DOMAIN add_calls :
        \E r \in DOMAIN sm_valid_cookies :
            /\ validate_cookie(sm_valid_cookies[r], r - 1).valid
            /\ add_calls[k].cookies =
                  <<validate_cookie(sm_valid_cookies[r], r - 1).fixed>>

----------------------------------------------------------------------------
(* A login path whose save fails *)

\* the write of the session record raises (json.dump, or the flush when the
\* with block closes the file): the except of lines 134-137, 407-410 and
\* 617-620 closes the browser and returns failure; the file stays as
\* open(..., "w") left it
SaveFails ==
    /\ spc = "saving"
    /\ spc' = "idle"
    /\ pending' = [exists |-> FALSE]
    /\ previous' = [exists |-> FALSE]
    /\ last_op' = "login_failed"
    /\ UNCHANGED <<session_file, now, profile_dirs, valid_result, login_at,
                   logged_out>>
    /\ StoreFrame

NextStoreFaults == NextStore \/ SaveFails

SpecStoreFaults == InitStore /\ [][NextStoreFaults]_vars

\* the session file as it was when the login path now returning was called
FileBeforeCall == IF spc = "saving" THEN previous ELSE session_file

\* login, oauth_login or inject_cookies returns failure in this step
ReturnsFailure ==
    /\ spc' = "idle"
    /\ last_op' = "login_failed"
    /\ \/ spc = "saving"
       \/ spc = "idle" /\ UNCHANGED <<session_file, now, login_at, logged_out>>

\* C38: when login, oauth_login or inject_cookies returns failure, the stored
\* session record is exactly what it was before the call, and so is the
\* value of has_valid_session().
C38_FailureChangesNothingDurable ==
    [][ ReturnsFailure =>
          /\ session_file' = FileBeforeCall
          /\ has_valid_session(session_file', now').value
                = has_valid_session(FileBeforeCall, now).value ]_vars

----------------------------------------------------------------------------
(* close() of SessionManager, GrokCookieExtractor and ManualOAuthExtractor *)

Owners == {"SessionManager", "GrokCookieExtractor", "ManualOAuthExtractor"}

\* the four attributes in the order close() goes through them
HandleOrder == <<"page", "context", "browser", "playwright">>

HandleNames == {HandleOrder[i] : i \in 1..Len(HandleOrder)}

OpenHandles(h) == {n \in HandleNames : h[n] = "open"}

\* position of the first attribute that is set and whose close()/stop()
\* raises; Len(HandleOrder) + 1 when there is none
FirstRaising(h, failing) ==
    LET hits == {i \in 1..Len(HandleOrder) :
                    h[HandleOrder[i]] = "open" /\ HandleOrder[i] \in failing}
    IN IF hits = {} THEN Len(HandleOrder) + 1
       ELSE CHOOSE i \in hits : \A j \in hits : i <= j

\* SessionManager.close: no try/except, an exception of a close() leaves the
\* method at that line
SessionManager_close(h, failing) ==
    LET stop == FirstRaising(h, failing)
        done == {HandleOrder[i] : i \in 1..(stop - 1)}
        tried == {HandleOrder[i] :
                    i \in {j \in 1..Len(HandleOrder) : j <= stop}}
    IN [handles |-> [n \in DOMAIN h |->
                        IF n \in done THEN "None" ELSE h[n]],
        attempted |-> tried \cap OpenHandles(h),
        raised |-> stop <= Len(HandleOrder)]

\* GrokCookieExtractor.close: every close() is wrapped in try/except
\* Exception: pass, the attribute is reset either way
GrokCookieExtractor_close(h, failing) ==
    [handles |-> [n \in DOMAIN h |->
                    IF n \in HandleNames THEN "None" ELSE h[n]],
     attempted |-> OpenHandles(h),
     raised |-> FALSE]

\* ManualOAuthExtractor.close: sets the stop event, then as above
ManualOAuthExtractor_close(h, failing) ==
    LET stopped == [h EXCEPT !.stop_event = "set"]
    IN [handles |-> [n \in DOMAIN h |->
                        IF n \in HandleNames THEN "None" ELSE stopped[n]],
        attempted |-> OpenHandles(h),
        raised |-> FALSE]

close(h, failing) ==
    CASE h.owner = "SessionManager" -> SessionManager_close(h, failing)
      [] h.owner = "GrokCookieExtractor" -> GrokCookieExtractor_close(h, failing)
      [] h.owner = "ManualOAuthExtractor" ->
            ManualOAuthExtractor_close(h, failing)

CloseFrame == UNCHANGED <<monVars, injVars, storeVars, valVars, detVars,
                          apiVars>>

\* initialize(): the attributes are set one after the other, playwright
\* first; a launch that raises leaves the later ones unset, and the
\* persistent-context launch leaves browser unset
OpenHandlesOf ==
    /\ OpenHandles(handles) = {}
    /\ \E opened \in (SUBSET HandleNames) \ {{}} :
          /\ "playwright" \in opened
          /\ "page" \in opened => "context" \in opened
          /\ handles' = [n \in DOMAIN handles |->
                            IF n \in opened THEN "open" ELSE handles[n]]
    /\ close_result' = [returned |-> FALSE]
    /\ CloseFrame

\* one call of close(); failing is the set of handles whose close() raises
CallClose ==
    /\ \E failing \in SUBSET HandleNames :
          LET out == close(handles, failing)
          IN /\ handles' = out.handles
             /\ close_result' = [returned |-> TRUE,
                                 before |-> OpenHandles(handles),
                                 attempted |-> out.attempted,
                                 errors |-> out.attempted \cap failing,
                                 raised |-> out.raised]
    /\ CloseFrame

InitClose ==
    /\ MonitorIdle /\ InjectorIdle /\ StoreIdle /\ ValidatorIdle
    /\ DetectorIdle /\ ApiIdle
    /\ \E owner \in Owners :
          handles = [owner |-> owner, page |-> "None", context |-> "None",
                     browser |-> "None", playwright |-> "None",
                     stop_event |-> "clear"]
    /\ close_result = [returned |-> FALSE]

NextClose == OpenHandlesOf \/ CallClose

SpecClose == InitClose /\ [][NextClose]_vars

\* C39: after close() on any of the three classes every handle that was set
\* has had its close()/stop() called and all four attributes are None, also
\* when an earlier close() raised; close() does not raise; with nothing open
\* it calls nothing.
C39_CloseReleasesEverything ==
    close_result.returned =>
        /\ OpenHandles(handles) = {}
        /\ close_result.attempted = close_result.before
        /\ ~close_result.raised

\* a close() of an extractor during which at least one handle's close()
\* raised
ExtractorCloseSwallowsErrors ==
    /\ close_result.returned
    /\ handles.owner # "SessionManager"
    /\ close_result.errors # {}

\* the same for the two extractor classes alone
ExtractorCloseReleasesEverything ==
    (close_result.returned /\ handles.owner # "SessionManager") =>
        /\ OpenHandles(handles) = {}
        /\ close_result.attempted = close_result.before
        /\ ~close_result.raised

\* SessionManager.close when no close() raises, or when nothing is open
SessionManagerCloseWithoutFailure ==
    (close_result.returned /\ handles.owner = "SessionManager"
        /\ ~close_result.raised) =>
        /\ OpenHandles(handles) = {}
        /\ close_result.attempted = close_result.before
====
